---------------------------- MODULE Spec2Model ----------------------------
(***************************************************************************)
(* Model of the PDF comparison tool (src/compare_pdf.py) and of           *)
(* compress_pdf with its callers (src/compress_pdf.py).                    *)
(*                                                                         *)
(* The specifications share the variables: Spec (method calls on one      *)
(* PDFComparer), CallersSpec (several threads inside one comparer, in      *)
(* callers), AppSpec (main() and the window of PDFCompareGUI, in gui),     *)
(* CompressSpec (main() or the worker of compress_pdf.py over its files:   *)
(* the loop in callers, the file passed through compress_pdf in job) and   *)
(* WorkerSpec (the window of PDFCompressGUI in gui, with its worker),      *)
(* which WorkerFairSpec repeats with the scheduling of the worker.         *)
(*                                                                         *)
(* The state is one PDFComparer object (its two paths and its two         *)
(* readers) together with the value returned by the most recent call on   *)
(* it and the methods of the comparer which that call ran.  A page text   *)
(* is a sequence of one-character strings; a loaded reader is the          *)
(* sequence of its page texts.  Text positions are 0-based as in the       *)
(* Python source; the element at position p of s is s[p + 1].              *)
(*                                                                         *)
(* Similarity scores are kept as exact fractions <<num, den>> in lowest    *)
(* terms.  For the text lengths explored here two different fractions      *)
(* 2M/T are far more than one rounding step apart, so equality of the      *)
(* fractions coincides with equality of the floats the program computes.   *)
(***************************************************************************)
EXTENDS Integers, Sequences, FiniteSets, TLC

VARIABLES pdf1_path, pdf2_path, pdf1_reader, pdf2_reader, ret, called,
          callers, gui, job

vars == <<pdf1_path, pdf2_path, pdf1_reader, pdf2_reader, ret, called,
          callers, gui, job>>

----------------------------------------------------------------------------
(* Bounds of the explored inputs *)

\* most pages in a document
MaxPages == 2

\* longest page text in a single-page document
MaxTextLen == 4

\* difflib's autojunk threshold: "if self.autojunk and n >= 200"
AutoJunkMinLen == 200

Alphabet == {"a", "b"}

----------------------------------------------------------------------------
(* Generic helpers *)

Max2(x, y) == IF x >= y THEN x ELSE y

Min2(x, y) == IF x <= y THEN x ELSE y

MaxOf(S) == CHOOSE x \in S : \A y \in S : y <= x

MinOf(S) == CHOOSE x \in S : \A y \in S : x <= y

\* the element of a one-element set: Only({F(x) : x \in {e}}) is F(e), with e
\* evaluated once however often F uses x
Only(S) == CHOOSE x \in S : TRUE

RECURSIVE Gcd(_, _)
Gcd(x, y) == IF y = 0 THEN x ELSE Gcd(y, x % y)

\* the texts over Alphabet of length at most n
TextsUpTo(n) == UNION {[1..k -> Alphabet] : k \in 0..n}

\* the sequences of at most n elements of S
SeqsUpTo(S, n) == UNION {[1..k -> S] : k \in 0..n}

----------------------------------------------------------------------------
(* difflib.SequenceMatcher(None, a, b), as called by compare_text *)

Elements(s) == {s[p] : p \in 1..Len(s)}

Positions(b, elt) == {j \in 0..(Len(b) - 1) : b[j + 1] = elt}

\* __chain_b, autojunk part: for len(b) >= 200 the elements that occur more
\* than len(b) // 100 + 1 times in b are "popular"
popular(b) ==
    IF Len(b) >= AutoJunkMinLen
    THEN {elt \in Elements(b) :
            Cardinality(Positions(b, elt)) > (Len(b) \div 100) + 1}
    ELSE {}

\* __chain_b: b2j maps each element of b to its positions in b (isjunk is
\* None, so nothing is junk); the popular elements are deleted from it
chain_b(b) == [elt \in (Elements(b) \ popular(b)) |-> Positions(b, elt)]

\* find_longest_match, the value k = newj2len[j] of row i: b2j holds j for
\* a[i], and k is j2len.get(j-1, 0) + 1, so k counts the pairs (i, j),
\* (i-1, j-1), ... back to the first one that b2j does not hold or that
\* leaves a[alo:] or b[blo:]
InB2j(a, b2j, blo, bhi, i, j) ==
    /\ a[i + 1] \in DOMAIN b2j
    /\ j \in b2j[a[i + 1]]
    /\ blo <= j
    /\ j < bhi

newj2len(a, b2j, alo, blo, bhi, i, j) ==
    MaxOf({k \in 1..(Min2(i - alo, j - blo) + 1) :
             \A d \in 0..(k - 1) : InB2j(a, b2j, blo, bhi, i - d, j - d)})

\* find_longest_match, "for i in range(alo, ahi): for j in b2j.get(a[i])":
\* (besti, bestj, bestsize) moves only when "k > bestsize", so the loops
\* end on the first (i, j), in the order scanned, that reaches the greatest
\* k; (alo, blo, 0) stays when b2j holds no pair
LongestInB2j(a, b2j, alo, ahi, blo, bhi) ==
    LET rows == {i \in alo..(ahi - 1) : a[i + 1] \in DOMAIN b2j}
        pairs == UNION {{<<i, j>> : j \in {j \in b2j[a[i + 1]] :
                                                blo <= j /\ j < bhi}} :
                        i \in rows}
        len(p) == newj2len(a, b2j, alo, blo, bhi, p[1], p[2])
        bestsize == MaxOf({len(p) : p \in pairs})
        longest == {p \in pairs : len(p) = bestsize}
        i == MinOf({p[1] : p \in longest})
        j == MinOf({p[2] : p \in {q \in longest : q[1] = i}})
    IN  IF pairs = {} THEN [i |-> alo, j |-> blo, size |-> 0]
        ELSE [i |-> i - bestsize + 1, j |-> j - bestsize + 1, size |-> bestsize]

\* "while besti > alo and bestj > blo and not isbjunk(b[bestj-1]) and
\*  a[besti-1] == b[bestj-1]": bjunk is empty, so isbjunk is always false;
\* the loop runs e times, e the length of the equal run to the left
ExtendLeft(a, b, alo, blo, best) ==
    LET e == MaxOf({n \in 0..Min2(best.i - alo, best.j - blo) :
                      \A d \in 1..n : a[best.i - d + 1] = b[best.j - d + 1]})
    IN  [i |-> best.i - e, j |-> best.j - e, size |-> best.size + e]

\* mutant of ExtendRight: the popular elements taken for junk, so that the
\* loop never extends the match
ExtendRight_junk(a, b, ahi, bhi, best) == best

\* "while besti+bestsize < ahi and bestj+bestsize < bhi and
\*  not isbjunk(b[bestj+bestsize]) and a[besti+bestsize] == b[bestj+bestsize]"
ExtendRight(a, b, ahi, bhi, best) ==
    LET ai == best.i + best.size
        bj == best.j + best.size
        e == MaxOf({n \in 0..Min2(ahi - ai, bhi - bj) :
                      \A d \in 0..(n - 1) : a[ai + d + 1] = b[bj + d + 1]})
    IN  [best EXCEPT !.size = best.size + e]

\* the two closing loops of find_longest_match extend over junk elements
\* only and never run, bjunk being empty
find_longest_match(a, b, b2j, alo, ahi, blo, bhi) ==
    ExtendRight(a, b, ahi, bhi,
                ExtendLeft(a, b, alo, blo,
                           LongestInB2j(a, b2j, alo, ahi, blo, bhi)))

\* get_matching_blocks followed by ratio's sum of the block sizes: the
\* queue of get_matching_blocks holds the windows still to be searched, and
\* merging adjacent blocks leaves the sum of their sizes as it is
RECURSIVE MatchedSize(_, _, _, _, _, _, _)
MatchedSize(a, b, b2j, alo, ahi, blo, bhi) ==
    Only({IF x.size = 0 THEN 0
          ELSE x.size
               + (IF alo < x.i /\ blo < x.j
                  THEN MatchedSize(a, b, b2j, alo, x.i, blo, x.j) ELSE 0)
               + (IF x.i + x.size < ahi /\ x.j + x.size < bhi
                  THEN MatchedSize(a, b, b2j, x.i + x.size, ahi, x.j + x.size, bhi)
                  ELSE 0) :
          x \in {find_longest_match(a, b, b2j, alo, ahi, blo, bhi)}})

matches(a, b) ==
    Only({MatchedSize(a, b, b2j, 0, Len(a), 0, Len(b)) : b2j \in {chain_b(b)}})

\* a fraction in lowest terms; a zero denominator is a ZeroDivisionError
Frac(n, d) == IF d = 0 THEN <<n, 0>>
              ELSE Only({<<n \div g, d \div g>> : g \in {Gcd(n, d)}})

\* mutant of calculate_ratio: the division without the "if length" guard
calculate_ratio_unguarded(m, length) == Frac(2 * m, length)

\* _calculate_ratio: "2.0 * matches / length if length else 1.0"
calculate_ratio(m, length) == IF length # 0 THEN Frac(2 * m, length) ELSE <<1, 1>>

\* SequenceMatcher.ratio
ratio(a, b) == Only({calculate_ratio(m, Len(a) + Len(b)) : m \in {matches(a, b)}})

----------------------------------------------------------------------------
(* str.splitlines(keepends=True) and difflib.unified_diff(a, b, fromfile,
   tofile, lineterm=""), as called by compare_text; a and b are sequences
   of lines, and a line is again a sequence of one-character strings *)

\* the positions (1-based) at which a line of text s ends: a "\n", a "\r"
\* that no "\n" follows, and the last character of the text
LineEnds(s) ==
    {p \in 1..Len(s) :
        \/ s[p] = "\n"
        \/ s[p] = "\r" /\ (p = Len(s) \/ s[p + 1] # "\n")
        \/ p = Len(s)}

\* mutant of splitlines: keepends=False, the line breaks dropped
splitlines_dropends(s) ==
    LET ends == LineEnds(s)
        end(k) == CHOOSE e \in ends : Cardinality({q \in ends : q <= e}) = k
        start(e) == MaxOf({q \in ends : q < e} \cup {0}) + 1
        last(e) == IF s[e] = "\n" /\ e > start(e) /\ s[e - 1] = "\r" THEN e - 2
                   ELSE IF s[e] \in {"\n", "\r"} THEN e - 1 ELSE e
    IN  [k \in 1..Cardinality(ends) |-> SubSeq(s, start(end(k)), last(end(k)))]

\* s.splitlines(keepends=True): the lines of s, each with its line break
splitlines(s) ==
    LET ends == LineEnds(s)
        end(k) == CHOOSE e \in ends : Cardinality({q \in ends : q <= e}) = k
        start(e) == MaxOf({q \in ends : q < e} \cup {0}) + 1
    IN  [k \in 1..Cardinality(ends) |-> SubSeq(s, start(end(k)), end(k))]

\* get_matching_blocks, the while loop and the sort: the longest match of
\* the window, the blocks to its left before it and those to its right
\* after it
RECURSIVE MatchingBlocks(_, _, _, _, _, _, _)
MatchingBlocks(a, b, b2j, alo, ahi, blo, bhi) ==
    Only({IF x.size = 0 THEN <<>>
          ELSE (IF alo < x.i /\ blo < x.j
                THEN MatchingBlocks(a, b, b2j, alo, x.i, blo, x.j) ELSE <<>>)
               \o <<x>>
               \o (IF x.i + x.size < ahi /\ x.j + x.size < bhi
                   THEN MatchingBlocks(a, b, b2j, x.i + x.size, ahi,
                                       x.j + x.size, bhi)
                   ELSE <<>>) :
          x \in {find_longest_match(a, b, b2j, alo, ahi, blo, bhi)}})

\* get_matching_blocks, "if i1 + k1 == i2 and j1 + k1 == j2: k1 += k2":
\* adjacent blocks are collapsed into one
RECURSIVE NonAdjacent(_, _, _)
NonAdjacent(blocks, k, cur) ==
    IF k > Len(blocks)
    THEN IF cur.size > 0 THEN <<cur>> ELSE <<>>
    ELSE IF cur.i + cur.size = blocks[k].i /\ cur.j + cur.size = blocks[k].j
         THEN NonAdjacent(blocks, k + 1,
                          [cur EXCEPT !.size = cur.size + blocks[k].size])
         ELSE (IF cur.size > 0 THEN <<cur>> ELSE <<>>)
              \o NonAdjacent(blocks, k + 1, blocks[k])

\* get_matching_blocks: the collapsed blocks and the closing (la, lb, 0)
get_matching_blocks(a, b) ==
    Only({NonAdjacent(blocks, 1, [i |-> 0, j |-> 0, size |-> 0])
            \o <<[i |-> Len(a), j |-> Len(b), size |-> 0]>> :
          blocks \in UNION {{MatchingBlocks(a, b, b2j, 0, Len(a), 0, Len(b))} :
                            b2j \in {chain_b(b)}}})

Opcode(tag, i1, i2, j1, j2) ==
    [tag |-> tag, i1 |-> i1, i2 |-> i2, j1 |-> j1, j2 |-> j2]

\* get_opcodes: before each matching block what lies between it and the
\* one before (replace, delete or insert), then the block itself (equal)
RECURSIVE OpcodesFrom(_, _, _, _)
OpcodesFrom(blocks, k, i, j) ==
    IF k > Len(blocks) THEN <<>>
    ELSE LET ai == blocks[k].i
             bj == blocks[k].j
             size == blocks[k].size
             tag == IF i < ai /\ j < bj THEN "replace"
                    ELSE IF i < ai THEN "delete"
                    ELSE IF j < bj THEN "insert" ELSE ""
         IN  (IF tag # "" THEN <<Opcode(tag, i, ai, j, bj)>> ELSE <<>>)
             \o (IF size > 0
                 THEN <<Opcode("equal", ai, ai + size, bj, bj + size)>>
                 ELSE <<>>)
             \o OpcodesFrom(blocks, k + 1, ai + size, bj + size)

get_opcodes(a, b) ==
    Only({OpcodesFrom(blocks, 1, 0, 0) : blocks \in {get_matching_blocks(a, b)}})

\* unified_diff's default "n=3" lines of context
ContextLines == 3

\* get_grouped_opcodes, the fix-up of a leading and a trailing equal range:
\* only the n lines next to a change are kept
TrimEnds(codes0, n) ==
    LET codes == IF codes0 = <<>> THEN <<Opcode("equal", 0, 1, 0, 1)>> ELSE codes0
        first == codes[1]
        codes1 == IF first.tag = "equal"
                  THEN [codes EXCEPT ![1] =
                          Opcode("equal", Max2(first.i1, first.i2 - n), first.i2,
                                 Max2(first.j1, first.j2 - n), first.j2)]
                  ELSE codes
        last == codes1[Len(codes1)]
    IN  IF last.tag = "equal"
        THEN [codes1 EXCEPT ![Len(codes1)] =
                Opcode("equal", last.i1, Min2(last.i2, last.i1 + n),
                       last.j1, Min2(last.j2, last.j1 + n))]
        ELSE codes1

\* get_grouped_opcodes, the loop: an equal range of more than 2n lines ends
\* the group with its first n lines and starts the next with its last n
RECURSIVE GroupsFrom(_, _, _, _)
GroupsFrom(codes, k, n, group) ==
    IF k > Len(codes)
    THEN IF group # <<>> /\ ~(Len(group) = 1 /\ group[1].tag = "equal")
         THEN <<group>> ELSE <<>>
    ELSE LET c == codes[k]
         IN  IF c.tag = "equal" /\ c.i2 - c.i1 > n + n
             THEN <<Append(group,
                           Opcode("equal", c.i1, Min2(c.i2, c.i1 + n),
                                  c.j1, Min2(c.j2, c.j1 + n)))>>
                  \o GroupsFrom(codes, k + 1, n,
                                <<Opcode("equal", Max2(c.i1, c.i2 - n), c.i2,
                                         Max2(c.j1, c.j2 - n), c.j2)>>)
             ELSE GroupsFrom(codes, k + 1, n, Append(group, c))

get_grouped_opcodes(a, b, n) ==
    Only({Only({GroupsFrom(codes, 1, n, <<>>) : codes \in {TrimEnds(codes0, n)}}) :
          codes0 \in {get_opcodes(a, b)}})

\* "'{}'.format(n)": the decimal digits of n
RECURSIVE Digits(_)
Digits(n) == IF n < 10 THEN <<ToString(n)>>
             ELSE Append(Digits(n \div 10), ToString(n % 10))

\* _format_range_unified
format_range_unified(start, stop) ==
    LET length == stop - start
    IN  IF length = 1 THEN Digits(start + 1)
        ELSE Digits(IF length = 0 THEN start ELSE start + 1)
               \o <<",">> \o Digits(length)

\* "@@ -{} +{} @@"
HunkHeader(group) ==
    <<"@", "@", " ", "-">>
        \o format_range_unified(group[1].i1, group[Len(group)].i2)
        \o <<" ", "+">>
        \o format_range_unified(group[1].j1, group[Len(group)].j2)
        \o <<" ", "@", "@">>

\* the lines lines[lo:hi], each behind the prefix
Prefixed(prefix, lines, lo, hi) ==
    [k \in 1..(hi - lo) |-> <<prefix>> \o lines[lo + k]]

\* the lines of one opcode: ' ' for equal, '-' for the lines of a and then
\* '+' for the lines of b otherwise
OpcodeLines(a, b, c) ==
    IF c.tag = "equal" THEN Prefixed(" ", a, c.i1, c.i2)
    ELSE (IF c.tag \in {"replace", "delete"}
          THEN Prefixed("-", a, c.i1, c.i2) ELSE <<>>)
         \o (IF c.tag \in {"replace", "insert"}
             THEN Prefixed("+", b, c.j1, c.j2) ELSE <<>>)

RECURSIVE GroupLines(_, _, _, _)
GroupLines(a, b, group, k) ==
    IF k > Len(group) THEN <<>>
    ELSE OpcodeLines(a, b, group[k]) \o GroupLines(a, b, group, k + 1)

RECURSIVE HunksFrom(_, _, _, _)
HunksFrom(a, b, groups, k) ==
    IF k > Len(groups) THEN <<>>
    ELSE <<HunkHeader(groups[k])>> \o GroupLines(a, b, groups[k], 1)
           \o HunksFrom(a, b, groups, k + 1)

\* unified_diff: nothing for equal a and b; otherwise "--- fromfile",
\* "+++ tofile" and the hunks
unified_diff(a, b, fromfile, tofile) ==
    Only({IF groups = <<>> THEN <<>>
          ELSE << <<"-", "-", "-", " ">> \o fromfile,
                  <<"+", "+", "+", " ">> \o tofile >>
                 \o HunksFrom(a, b, groups, 1) :
          groups \in {get_grouped_opcodes(a, b, ContextLines)}})

----------------------------------------------------------------------------
(* PDFComparer *)

\* self.pdfN_reader before load_pdfs has set it
None == [loaded |-> FALSE, pages |-> <<>>]

\* PdfReader(path) on a readable file whose pages carry the texts pages
PdfReader(pages) == [loaded |-> TRUE, pages |-> pages]

\* a dict with no key
EmptyDict == [key \in {} |-> 0]

\* extract_text: one text per page, in page order ("or ''" turns a page
\* without text into the empty text)
extract_text(reader) == reader.pages

\* mutant of page_text: a page index past the end is clamped to the last page
page_text_clamped(text, i) ==
    IF i < Len(text) THEN text[i + 1]
    ELSE IF Len(text) > 0 THEN text[Len(text)] ELSE <<>>

\* "text[i] if i < len(text) else ''"
page_text(text, i) == IF i < Len(text) THEN text[i + 1] ELSE <<>>

\* "similarity = matcher.ratio() * 100"
similarity(page_text1, page_text2) ==
    Only({Frac(r[1] * 100, r[2]) : r \in {ratio(page_text1, page_text2)}})

\* mutant of identical: the texts compared without regard to letter case
Lower(text) == [p \in 1..Len(text) |-> IF text[p] = "A" THEN "a" ELSE text[p]]

identical_ignoring_case(page_text1, page_text2) ==
    Lower(page_text1) = Lower(page_text2)

\* "page_text1 == page_text2"
identical(page_text1, page_text2) == page_text1 = page_text2

\* f"PDF{n} - Page {i+1}"
PageName(n, i) ==
    <<"P", "D", "F", n, " ", "-", " ", "P", "a", "g", "e", " ">> \o Digits(i + 1)

\* "diff = list(difflib.unified_diff(page_text1.splitlines(keepends=True),
\*  page_text2.splitlines(keepends=True), fromfile=..., tofile=...,
\*  lineterm=''))"
diff(i, page_text1, page_text2) ==
    Only({unified_diff(a, b, PageName("1", i), PageName("2", i)) :
          a \in {splitlines(page_text1)}, b \in {splitlines(page_text2)}})

\* mutant of comparison: the diff taken of the texts without the white
\* space at their ends
comparison_diff_stripped(i, page_text1, page_text2) ==
    [page       |-> i + 1,
     text1      |-> page_text1,
     text2      |-> page_text2,
     similarity |-> similarity(page_text1, page_text2),
     diff       |-> diff(i, SelectSeq(page_text1, LAMBDA ch : ch \notin {"\n", "\r"}),
                         SelectSeq(page_text2, LAMBDA ch : ch \notin {"\n", "\r"})),
     identical  |-> identical(page_text1, page_text2)]

\* mutant of comparison: the page number left 0-based
comparison_zero_based(i, page_text1, page_text2) ==
    [page       |-> i,
     text1      |-> page_text1,
     text2      |-> page_text2,
     similarity |-> similarity(page_text1, page_text2),
     diff       |-> diff(i, page_text1, page_text2),
     identical  |-> identical(page_text1, page_text2)]

\* the dict appended for page index i
comparison(i, page_text1, page_text2) ==
    [page       |-> i + 1,
     text1      |-> page_text1,
     text2      |-> page_text2,
     similarity |-> similarity(page_text1, page_text2),
     diff       |-> diff(i, page_text1, page_text2),
     identical  |-> identical(page_text1, page_text2)]

\* mutant of max_pages: only the pages both documents have
max_pages_min(text1, text2) == Min2(Len(text1), Len(text2))

\* "max_pages = max(len(text1), len(text2))"
max_pages(text1, text2) == Max2(Len(text1), Len(text2))

\* "for i in range(max_pages): ... comparisons.append({...})"
RECURSIVE PageLoop(_, _, _, _, _)
PageLoop(text1, text2, i, n, comparisons) ==
    IF i >= n THEN comparisons
    ELSE PageLoop(text1, text2, i + 1, n,
                  Append(comparisons,
                         comparison(i, page_text(text1, i), page_text(text2, i))))

\* compare_text: [] unless both readers are set
compare_text(r1, r2) ==
    IF ~r1.loaded \/ ~r2.loaded THEN <<>>
    ELSE LET text1 == extract_text(r1)
             text2 == extract_text(r2)
         IN  PageLoop(text1, text2, 0, max_pages(text1, text2), <<>>)

\* a division by zero inside SequenceMatcher.ratio ends compare_text with
\* the exception
Raises(comparisons) ==
    \E k \in 1..Len(comparisons) : comparisons[k].similarity[2] = 0

\* "sum(1 for c in comparisons if c['identical'])"
identical_pages(comparisons) ==
    Cardinality({k \in 1..Len(comparisons) : comparisons[k].identical})

\* "sum(c['similarity'] for c in comparisons)"
RECURSIVE SumSimilarity(_, _)
SumSimilarity(comparisons, k) ==
    IF k = 0 THEN <<0, 1>>
    ELSE LET s == SumSimilarity(comparisons, k - 1)
             c == comparisons[k].similarity
         IN  Frac(s[1] * c[2] + c[1] * s[2], s[2] * c[2])

\* mutant of avg_similarity: the sum of the similarities left undivided
avg_similarity_sum(comparisons) == SumSimilarity(comparisons, Len(comparisons))

\* mutant of avg_similarity: the division without the "if total_pages > 0"
\* guard
avg_similarity_unguarded(comparisons) ==
    LET total_pages == Len(comparisons)
        s == SumSimilarity(comparisons, total_pages)
    IN  Frac(s[1], s[2] * total_pages)

\* "sum(...) / total_pages if total_pages > 0 else 0"
avg_similarity(comparisons) ==
    LET total_pages == Len(comparisons)
        s == SumSimilarity(comparisons, total_pages)
    IN  IF total_pages > 0 THEN Frac(s[1], s[2] * total_pages) ELSE <<0, 1>>

\* mutant of different_pages: only the differing pages both documents have
different_pages_nonempty(comparisons) ==
    Cardinality({k \in 1..Len(comparisons) :
                   /\ ~comparisons[k].identical
                   /\ comparisons[k].text1 # <<>>
                   /\ comparisons[k].text2 # <<>>})

\* "different_pages": total_pages - identical_pages
different_pages(comparisons) == Len(comparisons) - identical_pages(comparisons)

\* mutant of files_identical: the page counts not compared
files_identical_pages_only(comparisons, r1, r2) ==
    identical_pages(comparisons) = Len(comparisons)

\* "files_identical": identical_pages == total_pages and
\* len(self.pdf1_reader.pages) == len(self.pdf2_reader.pages)
files_identical(comparisons, r1, r2) ==
    /\ identical_pages(comparisons) = Len(comparisons)
    /\ Len(r1.pages) = Len(r2.pages)

\* a division by zero in get_summary, or in the compare_text it calls, ends
\* get_summary with the exception
SummaryRaises(summary) ==
    /\ "average_similarity" \in DOMAIN summary
    /\ summary.average_similarity[2] = 0

\* the dict get_summary returns, given the list compare_text returned
summary_of(comparisons, r1, r2) ==
    [total_pages_pdf1   |-> Len(r1.pages),
     total_pages_pdf2   |-> Len(r2.pages),
     identical_pages    |-> identical_pages(comparisons),
     different_pages    |-> different_pages(comparisons),
     average_similarity |-> avg_similarity(comparisons),
     files_identical    |-> files_identical(comparisons, r1, r2)]

\* mutant of get_summary: the comparison run again with the two documents
\* in the other order
get_summary_swapped(r1, r2) ==
    IF ~r1.loaded \/ ~r2.loaded THEN EmptyDict
    ELSE Only({summary_of(comparisons, r1, r2) :
               comparisons \in {compare_text(r2, r1)}})

\* get_summary: {} unless both readers are set; "comparisons =
\* self.compare_text()" runs the comparison again
get_summary(r1, r2) ==
    IF ~r1.loaded \/ ~r2.loaded THEN EmptyDict
    ELSE Only({summary_of(comparisons, r1, r2) :
               comparisons \in {compare_text(r1, r2)}})

----------------------------------------------------------------------------
(* The files given to load_pdfs *)

\* a page of AutoJunkMinLen characters, "baba...ba": both of its characters
\* are popular
LongText == [p \in 1..AutoJunkMinLen |-> IF p % 2 = 1 THEN "b" ELSE "a"]

\* a page of AutoJunkMinLen + 1 characters, "abbb...b": "b" is popular and
\* "a" is not
LongTextRare == [p \in 1..(AutoJunkMinLen + 1) |-> IF p = 1 THEN "a" ELSE "b"]

\* pages that differ from "a" in letter case, in trailing whitespace and in
\* the line ending
CaseAndSpaceTexts == {<<"A">>, <<"a", "\n">>, <<"a", "\r", "\n">>}

\* a page of nine lines, "c", seven empty lines and "c": more unchanged
\* lines between its first and its last line than two hunks of a diff keep
ManyLines(c) ==
    <<c, "\n">> \o [k \in 1..(2 * ContextLines + 1) |-> "\n"] \o <<c, "\n">>

\* pages of several lines: the same two lines in either order, and the
\* pages of nine lines
LineTexts ==
    {<<"a", "\n", "b", "\n">>, <<"b", "\n", "a", "\n">>,
     ManyLines("a"), ManyLines("b")}

\* documents of several pages of at most one character, and one-page
\* documents of longer text
Docs ==
    SeqsUpTo(TextsUpTo(1), MaxPages)
        \cup {<<t>> : t \in TextsUpTo(MaxTextLen) \cup CaseAndSpaceTexts
                               \cup LineTexts
                               \cup {LongText, LongTextRare}}

\* a file PdfReader cannot read
Unreadable == [readable |-> FALSE, pages |-> <<>>]

Files == {[readable |-> TRUE, pages |-> d] : d \in Docs} \cup {Unreadable}

----------------------------------------------------------------------------
(* The state machine: method calls on one PDFComparer *)

Returned(op, ok, error, comparisons, summary) ==
    [op |-> op, ok |-> ok, error |-> error,
     comparisons |-> comparisons, summary |-> summary]

\* no thread is inside a method of the comparer
NoCallers == <<>>

\* no PDFCompareGUI has been constructed
NoGui == [mode |-> "none"]

\* compress_pdf is not running
NoJob == [pc |-> "none"]

\* __init__ on two paths; a path is modelled by the file found there
Init ==
    /\ \E f1 \in Files, f2 \in Files :
          /\ pdf1_path = f1
          /\ pdf2_path = f2
    /\ pdf1_reader = None
    /\ pdf2_reader = None
    /\ ret = Returned("init", TRUE, "none", <<>>, EmptyDict)
    /\ called = <<>>
    /\ callers = NoCallers
    /\ gui = NoGui
    /\ job = NoJob

\* load_pdfs, "self.pdf1_reader = PdfReader(self.pdf1_path)": an unreadable
\* file raises inside the try block and the reader stays as it was
loaded1(f1, f2, reader) == IF f1.readable THEN PdfReader(f1.pages) ELSE reader

\* load_pdfs, "self.pdf2_reader = PdfReader(self.pdf2_path)": reached only
\* if the first file was read
loaded2(f1, f2, reader) ==
    IF f1.readable /\ f2.readable THEN PdfReader(f2.pages) ELSE reader

\* load_pdfs returns (True, ...) if neither PdfReader call raised
load_success(f1, f2) == f1.readable /\ f2.readable

\* load_pdfs on files f1 and f2: the first unreadable file raises inside the
\* try block, the assignments before it stay, and (False, message) is returned
load_pdfs(f1, f2) ==
    /\ pdf1_reader' = loaded1(f1, f2, pdf1_reader)
    /\ pdf2_reader' = loaded2(f1, f2, pdf2_reader)
    /\ ret' = Returned("load_pdfs", load_success(f1, f2), "none",
                       <<>>, EmptyDict)

\* both callers (compare_pdfs, PDFCompareGUI._compare_pdfs) call load_pdfs
\* once, on the comparer they have just constructed
LoadPdfs ==
    /\ ret.op = "init"
    /\ load_pdfs(pdf1_path, pdf2_path)
    /\ called' = <<"load_pdfs">>
    /\ UNCHANGED <<pdf1_path, pdf2_path, callers, gui, job>>

\* the methods of the comparer that a call of compare_text runs
CompareTextCalls == <<"compare_text">>

\* the methods of the comparer that a call of get_summary runs:
\* "comparisons = self.compare_text()"
GetSummaryCalls == <<"get_summary">> \o CompareTextCalls

\* the methods a call of get_summary runs on readers r1 and r2: "return {}"
\* comes before the call of compare_text
get_summary_calls(r1, r2) ==
    IF ~r1.loaded \/ ~r2.loaded THEN <<"get_summary">> ELSE GetSummaryCalls

CompareText ==
    /\ \E comparisons \in {compare_text(pdf1_reader, pdf2_reader)} :
          ret' = IF Raises(comparisons)
                 THEN Returned("compare_text", FALSE, "ZeroDivisionError",
                               <<>>, EmptyDict)
                 ELSE Returned("compare_text", TRUE, "none",
                               comparisons, EmptyDict)
    /\ called' = CompareTextCalls
    /\ UNCHANGED <<pdf1_path, pdf2_path, pdf1_reader, pdf2_reader>>
    /\ UNCHANGED <<callers, gui, job>>

GetSummary ==
    /\ \E summary \in {get_summary(pdf1_reader, pdf2_reader)} :
          ret' = IF SummaryRaises(summary)
                 THEN Returned("get_summary", FALSE, "ZeroDivisionError",
                               <<>>, EmptyDict)
                 ELSE Returned("get_summary", TRUE, "none", <<>>, summary)
    /\ called' = get_summary_calls(pdf1_reader, pdf2_reader)
    /\ UNCHANGED <<pdf1_path, pdf2_path, pdf1_reader, pdf2_reader>>
    /\ UNCHANGED <<callers, gui, job>>

\* mutant of compare_pdfs: the success flag of load_pdfs not looked at
compare_pdfs_unchecked(f1, f2) ==
    LET r1 == loaded1(f1, f2, None)
        r2 == loaded2(f1, f2, None)
    IN  [pdf1_reader |-> r1,
         pdf2_reader |-> r2,
         ret    |-> Returned("compare_pdfs", TRUE, "none",
                             compare_text(r1, r2), get_summary(r1, r2)),
         called |-> <<"load_pdfs">> \o GetSummaryCalls
                      \o <<"get_metadata_comparison">> \o CompareTextCalls]

\* compare_pdfs(pdf1_path, pdf2_path): a comparer of its own, load_pdfs,
\* "if not success: raise ValueError(message)", and otherwise the dict of
\* get_summary(), get_metadata_comparison() and compare_text() (the
\* metadata are not modelled)
compare_pdfs(f1, f2) ==
    LET r1 == loaded1(f1, f2, None)
        r2 == loaded2(f1, f2, None)
    IN  IF ~load_success(f1, f2)
        THEN [pdf1_reader |-> r1,
              pdf2_reader |-> r2,
              ret    |-> Returned("compare_pdfs", FALSE, "ValueError",
                                  <<>>, EmptyDict),
              called |-> <<"load_pdfs">>]
        ELSE Only({[pdf1_reader |-> r1,
                    pdf2_reader |-> r2,
                    ret    |-> IF SummaryRaises(summary) \/ Raises(pages)
                               THEN Returned("compare_pdfs", FALSE,
                                             "ZeroDivisionError", <<>>, EmptyDict)
                               ELSE Returned("compare_pdfs", TRUE, "none",
                                             pages, summary),
                    called |-> <<"load_pdfs">> \o GetSummaryCalls
                                 \o <<"get_metadata_comparison">>
                                 \o CompareTextCalls] :
                   summary \in {get_summary(r1, r2)},
                   pages \in {compare_text(r1, r2)}})

ComparePdfs ==
    /\ ret.op = "init"
    /\ \E result \in {compare_pdfs(pdf1_path, pdf2_path)} :
          /\ pdf1_reader' = result.pdf1_reader
          /\ pdf2_reader' = result.pdf2_reader
          /\ ret' = result.ret
          /\ called' = result.called
    /\ UNCHANGED <<pdf1_path, pdf2_path, callers, gui, job>>

Next == LoadPdfs \/ CompareText \/ GetSummary \/ ComparePdfs

Spec == Init /\ [][Next]_vars

----------------------------------------------------------------------------
(* Several threads inside compare_text and get_summary of one comparer.
   Each call has its own frame of local variables (text1, text2, max_pages,
   i, comparisons); a step of a thread is one pass of the loop of
   compare_text *)

\* most threads calling at once
NumCallers == 2

CallerIds == 1..NumCallers

\* the files of the comparer the threads share
CallerFiles ==
    {[readable |-> TRUE, pages |-> d] :
        d \in {<<>>, <<<<"a">>>>, <<<<"a">>, <<"b">>>>, <<<<"a", "b">>, <<>>>>}}
      \cup {Unreadable}

\* a thread outside the comparer
Idle ==
    [pc |-> "idle", op |-> "none", text1 |-> <<>>, text2 |-> <<>>,
     max_pages |-> 0, i |-> 0, comparisons |-> <<>>, result |-> <<>>]

\* the frame on entry to the loop of compare_text
Entered(op, r1, r2) ==
    [pc |-> "loop", op |-> op,
     text1 |-> extract_text(r1), text2 |-> extract_text(r2),
     max_pages |-> max_pages(extract_text(r1), extract_text(r2)),
     i |-> 0, comparisons |-> <<>>, result |-> <<>>]

\* the frame after "return []" (compare_text) or "return {}" (get_summary)
\* on a comparer without its two readers
NothingLoaded(op) ==
    [Idle EXCEPT !.pc = "returned", !.op = op,
                 !.result = IF op = "compare_text" THEN <<>> ELSE EmptyDict]

CallersInit ==
    /\ \E f1 \in CallerFiles, f2 \in CallerFiles :
          /\ pdf1_path = f1
          /\ pdf2_path = f2
    /\ pdf1_reader = None
    /\ pdf2_reader = None
    /\ ret = Returned("init", TRUE, "none", <<>>, EmptyDict)
    /\ called = <<>>
    /\ callers = [c \in CallerIds |-> Idle]
    /\ gui = NoGui
    /\ job = NoJob

\* mutant of Accumulator: one list, kept by the comparer, that every call
\* appends to
Accumulator_shared(c) == 1

\* "comparisons = []": the list a call appends to is a local of that call
Accumulator(c) == c

\* thread c calls compare_text or get_summary on the loaded comparer
Call(c, op) ==
    /\ ret.op = "load_pdfs"
    /\ callers[c].pc \in {"idle", "returned"}
    /\ callers' =
         IF ~pdf1_reader.loaded \/ ~pdf2_reader.loaded
         THEN [callers EXCEPT ![c] = NothingLoaded(op)]
         ELSE [callers EXCEPT ![c] = Entered(op, pdf1_reader, pdf2_reader),
                              ![Accumulator(c)].comparisons = <<>>]
    /\ UNCHANGED <<pdf1_path, pdf2_path, pdf1_reader, pdf2_reader, ret, called>>
    /\ UNCHANGED <<gui, job>>

\* one pass of "for i in range(max_pages)" in thread c
Step(c) ==
    /\ callers[c].pc = "loop"
    /\ callers[c].i < callers[c].max_pages
    /\ \E entry \in {comparison(callers[c].i,
                                page_text(callers[c].text1, callers[c].i),
                                page_text(callers[c].text2, callers[c].i))} :
          callers' = [callers EXCEPT
                        ![Accumulator(c)].comparisons = Append(@, entry),
                        ![c].i = @ + 1]
    /\ UNCHANGED <<pdf1_path, pdf2_path, pdf1_reader, pdf2_reader, ret, called>>
    /\ UNCHANGED <<gui, job>>

\* "return comparisons" in thread c, and for get_summary the dict built
\* from them
Return(c) ==
    /\ callers[c].pc = "loop"
    /\ callers[c].i >= callers[c].max_pages
    /\ \E comparisons \in {callers[Accumulator(c)].comparisons} :
          callers' = [callers EXCEPT
                        ![c].pc = "returned",
                        ![c].result =
                            IF callers[c].op = "compare_text" THEN comparisons
                            ELSE summary_of(comparisons, pdf1_reader, pdf2_reader)]
    /\ UNCHANGED <<pdf1_path, pdf2_path, pdf1_reader, pdf2_reader, ret, called>>
    /\ UNCHANGED <<gui, job>>

CallersNext ==
    \/ LoadPdfs
    \/ \E c \in CallerIds, op \in {"compare_text", "get_summary"} : Call(c, op)
    \/ \E c \in CallerIds : Step(c)
    \/ \E c \in CallerIds : Return(c)

CallersSpec == CallersInit /\ [][CallersNext]_vars

----------------------------------------------------------------------------
(* The application: main() with its command line, and the window of
   PDFCompareGUI with its buttons. In the window the variables pdf1_path,
   pdf2_path, pdf1_reader and pdf2_reader are the fields of self.comparer *)

\* a path: its text, whether a file is there, whether PdfReader reads the
\* file, and the pages of the file
Path(name, exists, readable, pages) ==
    [name |-> name, exists |-> exists, readable |-> readable, pages |-> pages]

\* an empty entry, an argument not given, or None
NoPath == Path("", FALSE, FALSE, <<>>)

AppPaths ==
    {NoPath,
     Path("missing.pdf", FALSE, FALSE, <<>>),
     Path("broken.pdf", TRUE, FALSE, <<>>),
     Path("empty.pdf", TRUE, TRUE, <<>>),
     Path("a.pdf", TRUE, TRUE, <<<<"a">>>>),
     Path("b.pdf", TRUE, TRUE, <<<<"a">>, <<"b">>>>)}

\* a comparer constructed on each pair of application paths, after its
\* load_pdfs: the two readers, and what compare_text and get_summary return
ComparerOn ==
    [f1 \in AppPaths, f2 \in AppPaths |->
        Only({[pdf1_reader |-> r1,
               pdf2_reader |-> r2,
               comparisons |-> compare_text(r1, r2),
               summary     |-> get_summary(r1, r2)] :
              r1 \in {loaded1(f1, f2, None)}, r2 \in {loaded2(f1, f2, None)}})]

\* nothing written or displayed
NoReport == [kind |-> "none"]

\* "summary.get(key, default)"
Get(summary, key, default) ==
    IF key \in DOMAIN summary THEN summary[key] ELSE default

\* what _update_summary displays and what _generate_markdown and
\* _generate_html write: the two paths of the window, the values of the
\* summary, and one row per entry of self.comparisons
Report(kind, p1, p2, summary, comparisons) ==
    [kind               |-> kind,
     pdf1_path          |-> p1,
     pdf2_path          |-> p2,
     total_pages_pdf1   |-> Get(summary, "total_pages_pdf1", 0),
     total_pages_pdf2   |-> Get(summary, "total_pages_pdf2", 0),
     identical_pages    |-> Get(summary, "identical_pages", 0),
     different_pages    |-> Get(summary, "different_pages", 0),
     average_similarity |-> Get(summary, "average_similarity", <<0, 1>>),
     files_identical    |-> Get(summary, "files_identical", FALSE),
     comparisons        |-> comparisons]

\* PDFCompareGUI.__init__; dialog and report are the message the last
\* handler showed and the file it wrote, browsed tells whether a file has
\* been chosen with a Browse button
NewGui ==
    [mode         |-> "gui",
     pdf1_path    |-> NoPath,
     pdf2_path    |-> NoPath,
     comparer     |-> FALSE,
     comparisons  |-> <<>>,
     current_page |-> 0,
     summary_text |-> NoReport,
     dialog       |-> "none",
     report       |-> NoReport,
     browsed      |-> FALSE]

\* main(): the window if --gui is given or no path is, else the command line
AppInit ==
    /\ \E gui_flag \in BOOLEAN, pdf1 \in AppPaths, pdf2 \in AppPaths :
          IF gui_flag \/ (pdf1 = NoPath /\ pdf2 = NoPath)
          THEN /\ gui = NewGui
               /\ pdf1_path = NoPath
               /\ pdf2_path = NoPath
          ELSE /\ gui = NoGui
               /\ pdf1_path = pdf1
               /\ pdf2_path = pdf2
    /\ pdf1_reader = None
    /\ pdf2_reader = None
    /\ ret = Returned("init", TRUE, "none", <<>>, EmptyDict)
    /\ called = <<>>
    /\ callers = NoCallers
    /\ job = NoJob

\* main(), command line with one path only: parser.error
MainUsage ==
    /\ gui = NoGui
    /\ ret.op = "init"
    /\ pdf1_path = NoPath \/ pdf2_path = NoPath
    /\ ret' = Returned("main", FALSE, "usage", <<>>, EmptyDict)
    /\ UNCHANGED <<pdf1_path, pdf2_path, pdf1_reader, pdf2_reader, called>>
    /\ UNCHANGED <<callers, gui, job>>

\* main(), command line: "results = compare_pdfs(args.pdf1, args.pdf2)"
MainCompare ==
    /\ gui = NoGui
    /\ pdf1_path # NoPath /\ pdf2_path # NoPath
    /\ ComparePdfs

\* main(), command line, after compare_pdfs: the summary is printed, or the
\* except clause runs "print(..., file=sys.stderr)" in a module that does
\* not import sys
MainReport ==
    /\ gui = NoGui
    /\ ret.op = "compare_pdfs"
    /\ ret' = Returned("main", ret.ok, IF ret.ok THEN "none" ELSE "NameError",
                       <<>>, ret.summary)
    /\ UNCHANGED <<pdf1_path, pdf2_path, pdf1_reader, pdf2_reader, called>>
    /\ UNCHANGED <<callers, gui, job>>

\* _browse_file(pdf_num) with the file chosen in the dialog
browse_file(pdf_num, filepath) ==
    /\ gui.mode = "gui"
    /\ gui' = [gui EXCEPT !.pdf1_path = IF pdf_num = 1 THEN filepath ELSE @,
                          !.pdf2_path = IF pdf_num = 2 THEN filepath ELSE @,
                          !.dialog = "none",
                          !.report = NoReport,
                          !.browsed = TRUE]
    /\ ret' = Returned("_browse_file", TRUE, "none", <<>>, EmptyDict)
    /\ called' = <<>>
    /\ UNCHANGED <<pdf1_path, pdf2_path, pdf1_reader, pdf2_reader>>
    /\ UNCHANGED <<callers, job>>

BrowseFile ==
    \E pdf_num \in {1, 2}, filepath \in {p \in AppPaths : p.exists} :
        browse_file(pdf_num, filepath)

\* _compare_pdfs, one of the three returns before a comparer is constructed
Rejected(entry1, entry2, message) ==
    /\ gui' = [gui EXCEPT !.pdf1_path = entry1, !.pdf2_path = entry2,
                          !.dialog = message, !.report = NoReport]
    /\ ret' = Returned("_compare_pdfs", FALSE, message, <<>>, EmptyDict)
    /\ called' = <<>>
    /\ UNCHANGED <<pdf1_path, pdf2_path, pdf1_reader, pdf2_reader>>

\* _compare_pdfs, "if not success: messagebox.showerror(...); return"
LoadFailed(entry1, entry2) ==
    /\ gui' = [gui EXCEPT !.pdf1_path = entry1, !.pdf2_path = entry2,
                          !.comparer = TRUE,
                          !.dialog = "Error loading PDFs",
                          !.report = NoReport]
    /\ ret' = Returned("_compare_pdfs", FALSE, "Error loading PDFs",
                       <<>>, EmptyDict)
    /\ called' = <<"load_pdfs">>

\* _compare_pdfs after a load that succeeded: compare_text, then
\* _update_summary, _update_page_view and _update_diff_view; an exception
\* leaves the assignments made before it
Displayed(entry1, entry2, r1, r2) ==
    \E comparisons \in {ComparerOn[entry1, entry2].comparisons},
       summary \in {ComparerOn[entry1, entry2].summary} :
        IF Raises(comparisons)
        THEN /\ gui' = [gui EXCEPT !.pdf1_path = entry1, !.pdf2_path = entry2,
                                   !.comparer = TRUE,
                                   !.dialog = "Comparison failed",
                                   !.report = NoReport]
             /\ ret' = Returned("_compare_pdfs", FALSE, "Comparison failed",
                                <<>>, EmptyDict)
             /\ called' = <<"load_pdfs">> \o CompareTextCalls
        ELSE /\ gui' = [gui EXCEPT !.pdf1_path = entry1, !.pdf2_path = entry2,
                                   !.comparer = TRUE,
                                   !.comparisons = comparisons,
                                   !.current_page = 0,
                                   !.summary_text =
                                       Report("summary", entry1, entry2,
                                              summary, comparisons),
                                   !.dialog = "none",
                                   !.report = NoReport]
             /\ ret' = Returned("_compare_pdfs", TRUE, "none", <<>>, EmptyDict)
             /\ called' = <<"load_pdfs">> \o CompareTextCalls
                            \o get_summary_calls(r1, r2)
                            \o <<"get_metadata_comparison">>

\* _compare_pdfs with the texts of the two entries
gui_compare_pdfs(entry1, entry2) ==
    /\ gui.mode = "gui"
    /\ IF entry1 = NoPath \/ entry2 = NoPath
       THEN Rejected(entry1, entry2, "Please select both PDF files.")
       ELSE IF ~entry1.exists
       THEN Rejected(entry1, entry2, "PDF 1 not found")
       ELSE IF ~entry2.exists
       THEN Rejected(entry1, entry2, "PDF 2 not found")
       ELSE \E r1 \in {ComparerOn[entry1, entry2].pdf1_reader},
               r2 \in {ComparerOn[entry1, entry2].pdf2_reader} :
               /\ pdf1_path' = entry1
               /\ pdf2_path' = entry2
               /\ pdf1_reader' = r1
               /\ pdf2_reader' = r2
               /\ IF load_success(entry1, entry2)
                  THEN Displayed(entry1, entry2, r1, r2)
                  ELSE LoadFailed(entry1, entry2)
    /\ UNCHANGED <<callers, job>>

CompareClicked ==
    \E entry1 \in AppPaths, entry2 \in AppPaths : gui_compare_pdfs(entry1, entry2)

\* _update_page_view, the part that sets self.current_page: nothing is done
\* for an empty list, else the index is brought into 0 .. n - 1
update_page_view(current_page, n) ==
    IF n = 0 THEN current_page
    ELSE IF current_page >= n THEN Max2(n - 1, 0)
    ELSE IF current_page < 0 THEN 0
    ELSE current_page

\* _prev_page on a list of n comparisons: the new self.current_page
prev_page(current_page, n) ==
    IF current_page > 0 THEN update_page_view(current_page - 1, n)
    ELSE current_page

\* mutant of next_page: the index raised without a look at the list
next_page_unchecked(current_page, n) == current_page + 1

\* _next_page on a list of n comparisons: the new self.current_page
next_page(current_page, n) ==
    IF current_page < n - 1 THEN update_page_view(current_page + 1, n)
    ELSE current_page

\* the Previous button
PrevPage ==
    /\ gui.mode = "gui"
    /\ gui' = [gui EXCEPT !.current_page = prev_page(@, Len(gui.comparisons)),
                          !.dialog = "none", !.report = NoReport]
    /\ ret' = Returned("_prev_page", TRUE, "none", <<>>, EmptyDict)
    /\ called' = <<>>
    /\ UNCHANGED <<pdf1_path, pdf2_path, pdf1_reader, pdf2_reader>>
    /\ UNCHANGED <<callers, job>>

\* the Next button
NextPage ==
    /\ gui.mode = "gui"
    /\ gui' = [gui EXCEPT !.current_page = next_page(@, Len(gui.comparisons)),
                          !.dialog = "none", !.report = NoReport]
    /\ ret' = Returned("_next_page", TRUE, "none", <<>>, EmptyDict)
    /\ called' = <<>>
    /\ UNCHANGED <<pdf1_path, pdf2_path, pdf1_reader, pdf2_reader>>
    /\ UNCHANGED <<callers, job>>

\* _export_markdown and _export_html: saved tells whether a file name was
\* given in the dialog, writable whether the file could be written;
\* self.comparer is the comparer constructed on pdf1_path and pdf2_path
export(kind, saved, writable) ==
    /\ gui.mode = "gui"
    /\ IF gui.comparisons = <<>>
       THEN /\ gui' = [gui EXCEPT !.dialog = "No comparison results to export",
                                  !.report = NoReport]
            /\ ret' = Returned(kind, FALSE, "No comparison results to export",
                               <<>>, EmptyDict)
            /\ called' = <<>>
       ELSE IF ~saved
       THEN /\ gui' = [gui EXCEPT !.dialog = "none", !.report = NoReport]
            /\ ret' = Returned(kind, FALSE, "none", <<>>, EmptyDict)
            /\ called' = <<>>
       ELSE \E summary \in {ComparerOn[pdf1_path, pdf2_path].summary} :
            /\ called' = get_summary_calls(pdf1_reader, pdf2_reader)
                           \o <<"get_metadata_comparison">>
            /\ IF gui.pdf1_path.exists /\ gui.pdf2_path.exists /\ writable
               THEN /\ gui' = [gui EXCEPT
                                 !.dialog = "Report exported",
                                 !.report = Report(kind, gui.pdf1_path,
                                                   gui.pdf2_path, summary,
                                                   gui.comparisons)]
                    /\ ret' = Returned(kind, TRUE, "none", <<>>, EmptyDict)
               ELSE /\ gui' = [gui EXCEPT !.dialog = "Failed to export",
                                          !.report = NoReport]
                    /\ ret' = Returned(kind, FALSE, "Failed to export",
                                       <<>>, EmptyDict)
    /\ UNCHANGED <<pdf1_path, pdf2_path, pdf1_reader, pdf2_reader>>
    /\ UNCHANGED <<callers, job>>

ExportMarkdown ==
    \E saved \in BOOLEAN, writable \in BOOLEAN : export("markdown", saved, writable)

ExportHtml ==
    \E saved \in BOOLEAN, writable \in BOOLEAN : export("html", saved, writable)

AppNext ==
    \/ MainUsage
    \/ MainCompare
    \/ MainReport
    \/ BrowseFile
    \/ CompareClicked
    \/ PrevPage
    \/ NextPage
    \/ ExportMarkdown
    \/ ExportHtml

AppSpec == AppInit /\ [][AppNext]_vars

----------------------------------------------------------------------------
(* compress_pdf.py: the input files handled by a caller of compress_pdf,
   main() or the worker thread PDFCompressGUI._compress_files.  callers is
   the caller's loop over its files, job the file it is busy with, with
   compress_pdf taken a statement group at a time, and gui the window of
   PDFCompressGUI *)

\* what compress_pdf hands back: the tuple it returns, or the exception
\* that leaves it
Tuple(values) == [raised |-> "none", values |-> values]

Raise(exception) == [raised |-> exception, values |-> <<>>]

\* "get_file_size_mb(input_path)" of a file of size bytes
get_file_size_mb(size) == size

\* the sizes of the input file: an empty file, and a file with content
Sizes == {0, 1}

\* a path as the file dialogs and the command line give it
File(stem, suffix) == [stem |-> stem, suffix |-> suffix]

\* the PDF files the user can list in the window
FileNames == {File("a", ".pdf"), File("b", ".pdf")}

\* what can stand behind "input" on the command line
MainInputs == {File("a", ".pdf"), File("notes", ".txt")}

\* the longest list of files a caller starts with
MaxInputs == 2

\* the lists without a repeated entry
Distinct(list) ==
    \A j, k \in 1..Len(list) : list[j] = list[k] => j = k

\* the caller has taken file from its list; exists and size are the input
\* file on disk, output is whether the file compress_pdf is to write (in
\* replace mode the temporary file beside the input) is on disk, original
\* whether the input file still has its first content
Listed(caller, replace, force_pypdf, file, exists, size) ==
    [pc          |-> "listed",
     caller      |-> caller,
     replace     |-> replace,
     force_pypdf |-> force_pypdf,
     file        |-> file,
     exists      |-> exists,
     size        |-> size,
     gs          |-> "none",
     attempts    |-> <<>>,
     success     |-> FALSE,
     method      |-> "",
     last_error  |-> "",
     output      |-> FALSE,
     original    |-> "intact",
     result      |-> Tuple(<<>>),
     fault       |-> "none",
     counted     |-> "none"]

\* the caller is between two files
NoFrame ==
    [Listed("none", FALSE, FALSE, File("", ""), FALSE, 0) EXCEPT !.pc = "none"]

\* the locals of a caller that is about to run: main() after parse_args,
\* or _compress_files in a thread that _start_compression has started.
\* taken is the files the loop has taken so far, outcomes what became of
\* each input of main, snapshot the list of the window when the button
\* was clicked
Run(caller, inputs, output, replace, force_pypdf, snapshot) ==
    [pc            |-> "start",
     caller        |-> caller,
     inputs        |-> inputs,
     output        |-> output,
     replace       |-> replace,
     force_pypdf   |-> force_pypdf,
     i             |-> 0,
     total         |-> 0,
     success_count |-> 0,
     fail_count    |-> 0,
     taken         |-> <<>>,
     outcomes      |-> <<>>,
     snapshot      |-> snapshot,
     status        |-> "none"]

NoRun == [Run("none", <<>>, FALSE, FALSE, FALSE, <<>>) EXCEPT !.pc = "none"]

\* the worker thread is gone, and its locals with it: it has run to its
\* end, or an exception has ended it
Gone(pc, status) ==
    [Run("gui", <<>>, FALSE, FALSE, FALSE, <<>>) EXCEPT !.pc = pc, !.status = status]

\* PDFCompressGUI.__init__ and _create_widgets: after is whether the
\* callback that re-enables the button waits in the event queue,
\* curselection the selection that the handler which ran last has removed
NewCompressGui ==
    [mode           |-> "compress",
     files          |-> <<>>,
     listbox        |-> <<>>,
     replace_var    |-> FALSE,
     pypdf_var      |-> FALSE,
     is_compressing |-> FALSE,
     compress_btn   |-> "normal",
     after          |-> FALSE,
     curselection   |-> <<>>]

\* main() with a list of inputs, or a worker thread just started on the
\* files of the window
CompressInit ==
    /\ \/ \E inputs \in SeqsUpTo(MainInputs, MaxInputs) \ {<<>>},
             output \in BOOLEAN, replace \in BOOLEAN, force_pypdf \in BOOLEAN :
             /\ callers = Run("main", inputs, output, replace, force_pypdf, <<>>)
             /\ gui = NoGui
       \/ \E files \in {l \in SeqsUpTo(FileNames, MaxInputs) : Distinct(l)} \ {<<>>},
             replace \in BOOLEAN, force_pypdf \in BOOLEAN :
             /\ callers = Run("gui", <<>>, FALSE, FALSE, FALSE, files)
             /\ gui = [NewCompressGui EXCEPT
                         !.files = files,
                         !.listbox = files,
                         !.replace_var = replace,
                         !.pypdf_var = force_pypdf,
                         !.is_compressing = TRUE,
                         !.compress_btn = "disabled"]
    /\ job = NoFrame
    /\ pdf1_path = NoPath
    /\ pdf2_path = NoPath
    /\ pdf1_reader = None
    /\ pdf2_reader = None
    /\ ret = Returned("init", TRUE, "none", <<>>, EmptyDict)
    /\ called = <<>>

\* main: "if args.output and len(args.input) > 1: ...; sys.exit(1)"
MainArgs ==
    /\ callers.pc = "start"
    /\ callers.caller = "main"
    /\ callers' = IF callers.output /\ Len(callers.inputs) > 1
                  THEN [callers EXCEPT !.pc = "exited", !.status = "1"]
                  ELSE [callers EXCEPT !.pc = "loop"]
    /\ UNCHANGED <<pdf1_path, pdf2_path, pdf1_reader, pdf2_reader, ret, called>>
    /\ UNCHANGED <<gui, job>>

\* _compress_files up to the for statement
WorkerBegin ==
    /\ callers.pc = "start"
    /\ callers.caller = "gui"
    /\ callers' = [callers EXCEPT
                     !.pc = "loop",
                     !.replace = gui.replace_var,
                     !.force_pypdf = gui.pypdf_var,
                     !.total = Len(gui.files)]
    /\ UNCHANGED <<pdf1_path, pdf2_path, pdf1_reader, pdf2_reader, ret, called>>
    /\ UNCHANGED <<gui, job>>

\* the list the for statement of the caller walks: args.input, or
\* self.files itself, which the handlers of the window change in place
Walked == IF callers.caller = "main" THEN callers.inputs ELSE gui.files

\* the for statement takes the entry at its index, if the list has one
\* there; the worker then computes "(i / total) * 100"
Take ==
    /\ callers.pc = "loop"
    /\ job.pc = "none"
    /\ callers.i < Len(Walked)
    /\ IF callers.caller = "gui" /\ callers.total = 0
       THEN /\ callers' = Gone("dead", "ZeroDivisionError")
            /\ job' = job
       ELSE /\ callers' = [callers EXCEPT
                             !.i = @ + 1,
                             !.taken = Append(@, Walked[callers.i + 1])]
            /\ \E exists \in BOOLEAN, size \in Sizes :
                  job' = Listed(callers.caller, callers.replace,
                                callers.force_pypdf, Walked[callers.i + 1],
                                exists, size)
    /\ UNCHANGED <<pdf1_path, pdf2_path, pdf1_reader, pdf2_reader, ret, called>>
    /\ UNCHANGED gui

\* main: "if not input_path.exists(): ...; fail_count += 1; continue" and
\* "if not input_path.suffix.lower() == '.pdf': ...; continue"
MainExists ==
    /\ job.pc = "listed"
    /\ job.caller = "main"
    /\ job' = IF ~job.exists
              THEN [job EXCEPT !.pc = "done", !.counted = "fail"]
              ELSE IF job.file.suffix # ".pdf"
              THEN [job EXCEPT !.pc = "done"]
              ELSE [job EXCEPT !.pc = "call"]
    /\ UNCHANGED <<pdf1_path, pdf2_path, pdf1_reader, pdf2_reader, ret, called>>
    /\ UNCHANGED <<callers, gui>>

\* _compress_files: "original_size = get_file_size_mb(filepath)" stands
\* before the try block, and os.path.getsize raises for a file that is gone
WorkerSize ==
    /\ job.pc = "listed"
    /\ job.caller = "gui"
    /\ job' = IF job.exists THEN [job EXCEPT !.pc = "call"]
              ELSE [job EXCEPT !.pc = "done", !.fault = "FileNotFoundError"]
    /\ UNCHANGED <<pdf1_path, pdf2_path, pdf1_reader, pdf2_reader, ret, called>>
    /\ UNCHANGED <<callers, gui>>

\* another process removes the input file between the caller's look at it
\* and the call of compress_pdf
Vanish ==
    /\ job.pc = "call"
    /\ job.exists
    /\ job' = [job EXCEPT !.exists = FALSE]
    /\ UNCHANGED <<pdf1_path, pdf2_path, pdf1_reader, pdf2_reader, ret, called>>
    /\ UNCHANGED <<callers, gui>>

\* compress_pdf, "if not os.path.exists(input_path): ... return False, ''"
not_found == Tuple(<<FALSE, "">>)

\* compress_pdf up to "last_error = ''"
Start ==
    /\ job.pc = "call"
    /\ job' = IF ~job.exists
              THEN [job EXCEPT !.pc = "returned", !.result = not_found]
              ELSE [job EXCEPT !.pc = "ghostscript"]
    /\ UNCHANGED <<pdf1_path, pdf2_path, pdf1_reader, pdf2_reader, ret, called>>
    /\ UNCHANGED <<callers, gui>>

\* what compress_with_ghostscript returns: (True, None), or (False, ...)
\* when no gs command is found or when gs exits with an error
GhostscriptOutcomes == {"ok", "not found", "error"}

\* compress_pdf, "if not force_pypdf:"
attempt_ghostscript(force_pypdf) == ~force_pypdf

\* an attempt that ends well has written the output file (compress_pdf
\* looks again with os.path.exists); one that ends in an error may have
\* left a part of it; a gs command that is not found writes nothing
Written(outcome, output) ==
    IF outcome = "not found" THEN {output}
    ELSE IF outcome = "ok" THEN BOOLEAN
    ELSE {output, TRUE}

\* compress_pdf, the Ghostscript block
Ghostscript ==
    /\ job.pc = "ghostscript"
    /\ IF attempt_ghostscript(job.force_pypdf)
       THEN \E outcome \in GhostscriptOutcomes :
            \E output \in Written(outcome, job.output) :
               job' = [job EXCEPT
                         !.pc = "pypdf",
                         !.attempts = Append(@, "Ghostscript"),
                         !.gs = outcome,
                         !.success = (outcome = "ok"),
                         !.method = IF outcome = "ok" THEN "Ghostscript" ELSE @,
                         !.last_error = IF outcome = "ok" THEN @
                                        ELSE "Ghostscript " \o outcome,
                         !.output = output]
       ELSE job' = [job EXCEPT !.pc = "pypdf"]
    /\ UNCHANGED <<pdf1_path, pdf2_path, pdf1_reader, pdf2_reader, ret, called>>
    /\ UNCHANGED <<callers, gui>>

\* what compress_with_pypdf returns on an input file of size bytes:
\* PdfReader raises on an empty file
PyPdfOutcomes(size) == IF size = 0 THEN {"error"} ELSE {"ok", "error"}

\* mutant of attempt_pypdf: PyPDF run whatever Ghostscript has done
attempt_pypdf_always(success) == TRUE

\* compress_pdf, "if not success:"
attempt_pypdf(success) == ~success

\* compress_pdf, the PyPDF block; PdfReader reads the input before the
\* output file is opened, so an empty input leaves the output as it was
PyPdf ==
    /\ job.pc = "pypdf"
    /\ IF attempt_pypdf(job.success)
       THEN \E outcome \in PyPdfOutcomes(job.size) :
            \E output \in IF job.size = 0 THEN {job.output}
                          ELSE Written(outcome, job.output) :
               job' = [job EXCEPT
                         !.pc = "finish",
                         !.attempts = Append(@, "PyPDF"),
                         !.success = (outcome = "ok"),
                         !.method = IF outcome = "ok" THEN "PyPDF" ELSE @,
                         !.last_error = IF outcome = "ok" THEN @
                                        ELSE "PyPDF error",
                         !.output = output]
       ELSE job' = [job EXCEPT !.pc = "finish"]
    /\ UNCHANGED <<pdf1_path, pdf2_path, pdf1_reader, pdf2_reader, ret, called>>
    /\ UNCHANGED <<callers, gui>>

\* compress_pdf from "if success and os.path.exists(output_path):" on; the
\* reduction is a division by original_size
Finish ==
    /\ job.pc = "finish"
    /\ job' = [job EXCEPT
                 !.pc = "returned",
                 !.result =
                     IF job.success /\ job.output
                     THEN IF get_file_size_mb(job.size) = 0
                          THEN Raise("ZeroDivisionError")
                          ELSE Tuple(<<TRUE, "output_path", "None">>)
                     ELSE Tuple(<<FALSE, "", job.last_error>>)]
    /\ UNCHANGED <<pdf1_path, pdf2_path, pdf1_reader, pdf2_reader, ret, called>>
    /\ UNCHANGED <<callers, gui>>

\* "success, output_path, error_msg = compress_pdf(...)": the exception of
\* the call, or the ValueError of unpacking a tuple that has not three values
unpack(result) ==
    IF result.raised # "none" THEN result.raised
    ELSE IF Len(result.values) # 3 THEN "ValueError"
    ELSE "none"

\* mutant of replace_original: the temporary file moved over the input
\* whatever compress_pdf returned
replace_original_always(success) == TRUE

\* replace mode, "if success: os.replace(temp_output, ...)"
replace_original(success) == success

\* main in replace mode, "else: if os.path.exists(temp_output):
\* os.remove(temp_output)"; _compress_files has no such branch
remove_temp(caller, success) == caller = "main" /\ ~success

\* the caller takes the result: _compress_files inside "try: ... except
\* Exception", which counts a failure; main outside any try block.  In
\* replace mode the output of compress_pdf is the temporary file
Unpack ==
    /\ job.pc = "returned"
    /\ \E fault \in {unpack(job.result)} :
       \E success \in {fault = "none" /\ job.result.values[1]} :
       \E replaced \in {job.replace /\ fault = "none" /\ replace_original(success)} :
          job' = [job EXCEPT
                    !.pc = "done",
                    !.fault = fault,
                    !.original = IF replaced THEN "replaced" ELSE @,
                    !.output =
                        IF replaced THEN FALSE
                        ELSE IF job.replace /\ fault = "none"
                                /\ remove_temp(job.caller, success)
                        THEN FALSE
                        ELSE @,
                    !.counted =
                        IF fault # "none"
                        THEN IF job.caller = "gui" THEN "fail" ELSE "none"
                        ELSE IF success THEN "success" ELSE "fail"]
    /\ UNCHANGED <<pdf1_path, pdf2_path, pdf1_reader, pdf2_reader, ret, called>>
    /\ UNCHANGED <<callers, gui>>

\* what became of a file the caller is done with: it was not there, it was
\* no PDF file, compress_pdf made its output, compress_pdf returned False
\* or raised, or the caller itself raised before the call
outcome(frame) ==
    IF frame.result = Tuple(<<>>)
    THEN IF frame.fault # "none" THEN "crashed"
         ELSE IF ~frame.exists THEN "missing"
         ELSE "skipped"
    ELSE IF frame.fault = "none" /\ frame.result.values[1] THEN "success"
    ELSE "failed"

\* an exception that no except clause of the caller catches
uncaught(frame) == frame.fault # "none" /\ frame.counted = "none"

\* the end of the loop body: "success_count += 1" or "fail_count += 1",
\* or the exception that ends main() with a traceback and exit status 1,
\* or the worker thread without another statement
Count ==
    /\ callers.pc = "loop"
    /\ job.pc = "done"
    /\ callers' =
          IF uncaught(job) /\ callers.caller = "gui"
          THEN Gone("dead", job.fault)
          ELSE [callers EXCEPT
                  !.success_count = IF job.counted = "success" THEN @ + 1 ELSE @,
                  !.fail_count = IF job.counted = "fail" THEN @ + 1 ELSE @,
                  !.outcomes = IF callers.caller = "main"
                               THEN Append(@, outcome(job)) ELSE @,
                  !.pc = IF uncaught(job) THEN "traceback" ELSE @,
                  !.status = IF uncaught(job) THEN "1" ELSE @]
    /\ job' = NoFrame
    /\ UNCHANGED <<pdf1_path, pdf2_path, pdf1_reader, pdf2_reader, ret, called>>
    /\ UNCHANGED gui

\* main: the summary and "sys.exit(0 if fail_count == 0 else 1)"
MainExit ==
    /\ callers.pc = "loop"
    /\ callers.caller = "main"
    /\ job.pc = "none"
    /\ callers.i >= Len(Walked)
    /\ callers' = [callers EXCEPT
                     !.pc = "exited",
                     !.status = IF callers.fail_count = 0 THEN "0" ELSE "1"]
    /\ UNCHANGED <<pdf1_path, pdf2_path, pdf1_reader, pdf2_reader, ret, called>>
    /\ UNCHANGED <<gui, job>>

\* _compress_files after the loop, up to "self.root.after(0, lambda:
\* self.compress_btn.config(state=tk.NORMAL))"
WorkerSummary ==
    /\ callers.pc = "loop"
    /\ callers.caller = "gui"
    /\ job.pc = "none"
    /\ callers.i >= Len(Walked)
    /\ callers' = [callers EXCEPT !.pc = "reset"]
    /\ gui' = [gui EXCEPT !.after = TRUE]
    /\ UNCHANGED <<pdf1_path, pdf2_path, pdf1_reader, pdf2_reader, ret, called>>
    /\ UNCHANGED job

\* _compress_files from "self.is_compressing = False" to its end
WorkerReset ==
    /\ callers.pc = "reset"
    /\ callers' = Gone("ended", "none")
    /\ gui' = [gui EXCEPT !.is_compressing = FALSE]
    /\ UNCHANGED <<pdf1_path, pdf2_path, pdf1_reader, pdf2_reader, ret, called>>
    /\ UNCHANGED job

\* the main loop of the window runs the callback the worker has queued
EnableButton ==
    /\ gui.mode = "compress"
    /\ gui.after
    /\ gui' = [gui EXCEPT !.after = FALSE, !.compress_btn = "normal",
                          !.curselection = <<>>]
    /\ UNCHANGED <<pdf1_path, pdf2_path, pdf1_reader, pdf2_reader, ret, called>>
    /\ UNCHANGED <<callers, job>>

CompressNext ==
    \/ MainArgs
    \/ WorkerBegin
    \/ Take
    \/ MainExists
    \/ WorkerSize
    \/ Vanish
    \/ Start
    \/ Ghostscript
    \/ PyPdf
    \/ Finish
    \/ Unpack
    \/ Count
    \/ MainExit
    \/ WorkerSummary
    \/ WorkerReset
    \/ EnableButton

CompressSpec == CompressInit /\ [][CompressNext]_vars

----------------------------------------------------------------------------
(* compress_pdf.py: the window of PDFCompressGUI from its construction on.
   The handlers of the window run one at a time on the UI thread; the
   worker thread runs _compress_files between them, a statement group at a
   time *)

\* what a file dialog hands back: askopenfilenames the files picked (none
\* after Cancel), Path(folder).glob("*.pdf") the PDF files of a folder
Chosen == {list \in SeqsUpTo(FileNames, MaxInputs) : Distinct(list)}

RECURSIVE appended(_, _)
\* "for f in files: if f not in self.files: self.files.append(f);
\* self.file_listbox.insert(tk.END, f)": the entries that are appended
appended(files, chosen) ==
    IF chosen = <<>> THEN <<>>
    ELSE IF \E k \in 1..Len(files) : files[k] = Head(chosen)
    THEN appended(files, Tail(chosen))
    ELSE <<Head(chosen)>> \o appended(Append(files, Head(chosen)), Tail(chosen))

WorkerInit ==
    /\ gui = NewCompressGui
    /\ callers = NoRun
    /\ job = NoFrame
    /\ pdf1_path = NoPath
    /\ pdf2_path = NoPath
    /\ pdf1_reader = None
    /\ pdf2_reader = None
    /\ ret = Returned("init", TRUE, "none", <<>>, EmptyDict)
    /\ called = <<>>

\* _add_files
AddFiles ==
    /\ gui.mode = "compress"
    /\ \E chosen \in Chosen :
          gui' = [gui EXCEPT !.files = @ \o appended(gui.files, chosen),
                             !.listbox = @ \o appended(gui.files, chosen),
                             !.curselection = <<>>]
    /\ UNCHANGED <<pdf1_path, pdf2_path, pdf1_reader, pdf2_reader, ret, called>>
    /\ UNCHANGED <<callers, job>>

\* _add_folder
AddFolder ==
    /\ gui.mode = "compress"
    /\ \E chosen \in Chosen :
          gui' = [gui EXCEPT !.files = @ \o appended(gui.files, chosen),
                             !.listbox = @ \o appended(gui.files, chosen),
                             !.curselection = <<>>]
    /\ UNCHANGED <<pdf1_path, pdf2_path, pdf1_reader, pdf2_reader, ret, called>>
    /\ UNCHANGED <<callers, job>>

\* _clear_files
ClearFiles ==
    /\ gui.mode = "compress"
    /\ gui' = [gui EXCEPT !.files = <<>>, !.listbox = <<>>,
                          !.curselection = <<>>]
    /\ UNCHANGED <<pdf1_path, pdf2_path, pdf1_reader, pdf2_reader, ret, called>>
    /\ UNCHANGED <<callers, job>>

\* what curselection() can return for a listbox of n entries: indices from
\* 0, in ascending order
Selections(n) ==
    {s \in SeqsUpTo(0..(n - 1), n) : \A j, k \in 1..Len(s) : j < k => s[j] < s[k]}

\* "selected.reverse()"
reverse(selected) ==
    [k \in 1..Len(selected) |-> selected[Len(selected) + 1 - k]]

\* "del self.files[i]" and "self.file_listbox.delete(i)"
delete(list, i) ==
    [k \in 1..(Len(list) - 1) |-> IF k <= i THEN list[k] ELSE list[k + 1]]

RECURSIVE delete_each(_, _)
\* "for i in selected: del self.files[i]; self.file_listbox.delete(i)"; an
\* index past the end of the list raises IndexError and ends the handler
delete_each(list, selected) ==
    IF selected = <<>> THEN list
    ELSE IF Head(selected) >= Len(list) THEN list
    ELSE delete_each(delete(list, Head(selected)), Tail(selected))

\* mutant of remove_selected: the entries deleted from the top down
remove_selected_top_down(list, curselection) ==
    delete_each(list, curselection)

\* _remove_selected on the list of paths, and on the listbox
remove_selected(list, curselection) ==
    delete_each(list, reverse(curselection))

\* _remove_selected
RemoveSelected ==
    /\ gui.mode = "compress"
    /\ \E curselection \in Selections(Len(gui.listbox)) :
          gui' = [gui EXCEPT !.files = remove_selected(@, curselection),
                             !.listbox = remove_selected(@, curselection),
                             !.curselection = curselection]
    /\ UNCHANGED <<pdf1_path, pdf2_path, pdf1_reader, pdf2_reader, ret, called>>
    /\ UNCHANGED <<callers, job>>

\* mutant of may_start: a worker started whatever is_compressing says
may_start_always(is_compressing) == TRUE

\* _start_compression, "if self.is_compressing: return"
may_start(is_compressing) == ~is_compressing

\* a click on the Compress button, which is not disabled: _start_compression
StartCompression ==
    /\ gui.mode = "compress"
    /\ gui.compress_btn = "normal"
    /\ IF gui.files = <<>> \/ ~may_start(gui.is_compressing)
       THEN /\ gui' = [gui EXCEPT !.curselection = <<>>]
            /\ callers' = callers
       ELSE /\ gui' = [gui EXCEPT !.is_compressing = TRUE,
                                  !.compress_btn = "disabled",
                                  !.curselection = <<>>]
            /\ callers' = Run("gui", <<>>, FALSE, FALSE, FALSE, gui.files)
    /\ UNCHANGED <<pdf1_path, pdf2_path, pdf1_reader, pdf2_reader, ret, called>>
    /\ UNCHANGED job

\* a step of the worker thread
WorkerStep ==
    \/ WorkerBegin
    \/ Take
    \/ WorkerSize
    \/ Start
    \/ Ghostscript
    \/ PyPdf
    \/ Finish
    \/ Unpack
    \/ Count
    \/ WorkerSummary
    \/ WorkerReset

WorkerNext ==
    \/ AddFiles
    \/ AddFolder
    \/ ClearFiles
    \/ RemoveSelected
    \/ StartCompression
    \/ EnableButton
    \/ Vanish
    \/ WorkerBegin
    \/ Take
    \/ WorkerSize
    \/ Start
    \/ Ghostscript
    \/ PyPdf
    \/ Finish
    \/ Unpack
    \/ Count
    \/ WorkerSummary
    \/ WorkerReset

WorkerSpec == WorkerInit /\ [][WorkerNext]_vars

\* the worker thread is scheduled as long as it has a statement to run, and
\* the main loop of the window runs the callbacks queued with root.after
WorkerFairSpec ==
    WorkerInit /\ [][WorkerNext]_vars /\ WF_vars(WorkerStep) /\ WF_vars(EnableButton)

----------------------------------------------------------------------------
(* Properties *)

Loaded == pdf1_reader.loaded /\ pdf2_reader.loaded

\* compare_text has just returned on two loaded documents
Compared == ret.op = "compare_text" /\ Loaded

\* get_summary has just returned on two loaded documents
Summarised == ret.op = "get_summary" /\ Loaded

pages1 == pdf1_reader.pages

pages2 == pdf2_reader.pages

Hundred == <<100, 1>>

Zero == <<0, 1>>

\* C1: for every pair of documents, compare_text returns exactly
\* max(pages of document 1, pages of document 2) entries
C1_Length ==
    Compared =>
        /\ ret.error = "none"
        /\ Len(ret.comparisons) >= Len(pages1)
        /\ Len(ret.comparisons) >= Len(pages2)
        /\ Len(ret.comparisons) \in {Len(pages1), Len(pages2)}

C1_Witness ==
    /\ Compared
    /\ Len(pages1) = 1
    /\ Len(pages2) = 2
    /\ Len(ret.comparisons) = 2

\* C2: the k-th entry returned by compare_text carries page = k: the page
\* indices are 1-based and contiguous
C2_PageIndices ==
    Compared => \A k \in 1..Len(ret.comparisons) : ret.comparisons[k].page = k

C2_Witness ==
    /\ Compared
    /\ Len(ret.comparisons) = 2
    /\ ret.comparisons[1].page = 1
    /\ ret.comparisons[2].page = 2

\* C3: a page index present in only one document has the empty text on the
\* absent side and the page's own text on the other; if that text is not
\* empty the entry is not identical and its similarity is 0; no error
MissingSide(absent, present, k, absentText, presentText, entry) ==
    (k > Len(absent) /\ k <= Len(present)) =>
        /\ absentText = <<>>
        /\ presentText = present[k]
        /\ (presentText # <<>> => ~entry.identical /\ entry.similarity = Zero)

C3_MissingPages ==
    Compared =>
        /\ ret.error = "none"
        /\ \A k \in 1..Len(ret.comparisons) :
             LET c == ret.comparisons[k]
             IN  /\ MissingSide(pages1, pages2, k, c.text1, c.text2, c)
                 /\ MissingSide(pages2, pages1, k, c.text2, c.text1, c)

C3_Witness ==
    /\ Compared
    /\ pages1 = <<<<"a">>, <<"b">>>>
    /\ pages2 = <<<<"a">>>>
    /\ Len(ret.comparisons) = 2
    /\ ret.comparisons[1].identical
    /\ ret.comparisons[2].text2 = <<>>
    /\ ~ret.comparisons[2].identical
    /\ ret.comparisons[2].similarity = Zero

\* C4: a page whose two texts are the same text is identical and has
\* similarity 100, whatever the text; so comparing a page sequence with
\* itself gives that for every page
C4_SelfSimilarity ==
    Compared =>
        \A k \in 1..Len(ret.comparisons) :
            (k <= Len(pages1) /\ k <= Len(pages2) /\ pages1[k] = pages2[k]) =>
                /\ ret.comparisons[k].identical
                /\ ret.comparisons[k].similarity = Hundred

C4_Witness ==
    /\ Compared
    /\ pages1 = pages2
    /\ Len(pages1) = 1
    /\ Len(pages1[1]) >= AutoJunkMinLen
    /\ ret.comparisons[1].similarity = Hundred

\* C5: the similarity of a page does not change when PDF 1 and PDF 2 are
\* swapped
C5_Symmetric ==
    Compared =>
        \A k \in 1..Len(ret.comparisons) :
            ret.comparisons[k].similarity
                = compare_text(pdf2_reader, pdf1_reader)[k].similarity

\* C6: similarity = 100 * 2M/T with M the matched length of the plain
\* Ratcliff/Obershelp procedure: the longest common contiguous substring
\* (the leftmost in text A, then the leftmost in text B), then the same to
\* its left and to its right
HasCommon(a, b, alo, ahi, blo, bhi, k) ==
    \E i \in alo..(ahi - k), j \in blo..(bhi - k) :
        \A d \in 1..k : a[i + d] = b[j + d]

LongestCommon(a, b, alo, ahi, blo, bhi) ==
    CHOOSE k \in 0..Min2(ahi - alo, bhi - blo) :
        /\ HasCommon(a, b, alo, ahi, blo, bhi, k)
        /\ \/ k = Min2(ahi - alo, bhi - blo)
           \/ ~HasCommon(a, b, alo, ahi, blo, bhi, k + 1)

RECURSIVE GestaltMatched(_, _, _, _, _, _)
GestaltMatched(a, b, alo, ahi, blo, bhi) ==
    Only({IF k = 0 THEN 0
          ELSE LET i == MinOf({p \in alo..(ahi - k) :
                                 \E q \in blo..(bhi - k) :
                                     \A d \in 1..k : a[p + d] = b[q + d]})
                   j == MinOf({q \in blo..(bhi - k) :
                                 \A d \in 1..k : a[i + d] = b[q + d]})
               IN  k + GestaltMatched(a, b, alo, i, blo, j)
                     + GestaltMatched(a, b, i + k, ahi, j + k, bhi) :
          k \in {LongestCommon(a, b, alo, ahi, blo, bhi)}})

GestaltSimilarity(a, b) ==
    Frac(200 * GestaltMatched(a, b, 0, Len(a), 0, Len(b)), Len(a) + Len(b))

C6_RatcliffObershelp ==
    Compared =>
        \A k \in 1..Len(ret.comparisons) :
            LET c == ret.comparisons[k]
            IN  Len(c.text1) + Len(c.text2) > 0 =>
                    c.similarity = GestaltSimilarity(c.text1, c.text2)

\* C7: a page whose two texts are both empty has similarity 100, and no
\* division by zero is raised
C7_EmptyPages ==
    Compared =>
        /\ ret.error = "none"
        /\ \A k \in 1..Max2(Len(pages1), Len(pages2)) :
             (page_text(pages1, k - 1) = <<>> /\ page_text(pages2, k - 1) = <<>>) =>
                 /\ k <= Len(ret.comparisons)
                 /\ ret.comparisons[k].similarity = Hundred

C7_Witness ==
    /\ Compared
    /\ pages1 = <<<<>>>>
    /\ pages2 = <<<<>>>>
    /\ ret.error = "none"
    /\ ret.comparisons[1].similarity = Hundred

\* C8: a page is identical if and only if its two texts have the same
\* length and the same character at every position; letter case, whitespace
\* and line endings count
SameString(x, y) == Len(x) = Len(y) /\ \A p \in 1..Len(x) : x[p] = y[p]

C8_Identical ==
    Compared =>
        \A k \in 1..Len(ret.comparisons) :
            ret.comparisons[k].identical
                <=> SameString(IF k <= Len(pages1) THEN pages1[k] ELSE <<>>,
                               IF k <= Len(pages2) THEN pages2[k] ELSE <<>>)

C8_Witness ==
    /\ Compared
    /\ pages1 = <<<<"a">>>>
    /\ pages2 = <<<<"A">>>>
    /\ ~ret.comparisons[1].identical

\* C9: in every summary identical_pages + different_pages is the number of
\* page comparisons, the greater of the two page counts, and neither count
\* is negative
C9_Counts ==
    Summarised =>
        /\ ret.error = "none"
        /\ ret.summary.identical_pages >= 0
        /\ ret.summary.different_pages >= 0
        /\ ret.summary.identical_pages + ret.summary.different_pages
             = Len(compare_text(pdf1_reader, pdf2_reader))
        /\ ret.summary.identical_pages + ret.summary.different_pages
             = Max2(Len(pages1), Len(pages2))

C9_Witness ==
    /\ Summarised
    /\ Len(pages1) = 2
    /\ Len(pages2) = 1
    /\ ret.summary.identical_pages = 1
    /\ ret.summary.different_pages = 1

\* C10: files_identical holds if and only if every page comparison is
\* identical and the two page counts are equal
C10_FilesIdentical ==
    Summarised =>
        (ret.summary.files_identical
            <=> /\ Len(pages1) = Len(pages2)
                /\ \A k \in 1..Max2(Len(pages1), Len(pages2)) :
                     SameString(IF k <= Len(pages1) THEN pages1[k] ELSE <<>>,
                                IF k <= Len(pages2) THEN pages2[k] ELSE <<>>))

C10_Witness ==
    /\ Summarised
    /\ pages1 = <<<<"a">>>>
    /\ pages2 = <<<<"a">>, <<>>>>
    /\ ret.summary.identical_pages = 2
    /\ ~ret.summary.files_identical

\* the product of the denominators of the first k similarities
RECURSIVE DenProduct(_, _)
DenProduct(comparisons, k) ==
    IF k = 0 THEN 1
    ELSE comparisons[k].similarity[2] * DenProduct(comparisons, k - 1)

\* the sum of the first k similarities, as a multiple of 1/D
RECURSIVE ScaledSum(_, _, _)
ScaledSum(comparisons, k, D) ==
    IF k = 0 THEN 0
    ELSE comparisons[k].similarity[1] * (D \div comparisons[k].similarity[2])
         + ScaledSum(comparisons, k - 1, D)

\* avg is the arithmetic mean of the similarities of comparisons
IsMean(avg, comparisons) ==
    \A D \in {DenProduct(comparisons, Len(comparisons))} :
        avg[1] * Len(comparisons) * D
            = avg[2] * ScaledSum(comparisons, Len(comparisons), D)

\* C11: for two documents of zero pages compare_text returns the empty
\* list and get_summary returns average_similarity 0 without a division by
\* zero, identical_pages 0, different_pages 0 and files_identical true; for
\* a non-empty list of comparisons average_similarity is the arithmetic
\* mean of the similarities of the pages
C11_ZeroPagesAndMean ==
    /\ (Compared /\ pages1 = <<>> /\ pages2 = <<>>) => ret.comparisons = <<>>
    /\ Summarised =>
         /\ ret.error = "none"
         /\ (pages1 = <<>> /\ pages2 = <<>>) =>
                /\ ret.summary.average_similarity = Zero
                /\ ret.summary.identical_pages = 0
                /\ ret.summary.different_pages = 0
                /\ ret.summary.files_identical
         /\ \A comparisons \in {compare_text(pdf1_reader, pdf2_reader)} :
                Len(comparisons) > 0 =>
                    IsMean(ret.summary.average_similarity, comparisons)

C11_Witness ==
    /\ Summarised
    /\ pages1 = <<>>
    /\ pages2 = <<>>
    /\ ret.error = "none"
    /\ ret.summary.average_similarity = Zero
    /\ ret.summary.files_identical

\* C12: on two loaded documents, whatever their page counts and page
\* texts, compare_text and get_summary return a result and raise nothing:
\* compare_text a list with an entry for every page, get_summary a dict
\* with its six keys
SummaryKeys ==
    {"total_pages_pdf1", "total_pages_pdf2", "identical_pages",
     "different_pages", "average_similarity", "files_identical"}

C12_Total ==
    /\ Compared =>
         /\ ret.ok
         /\ ret.error = "none"
         /\ Len(ret.comparisons) = Max2(Len(pages1), Len(pages2))
    /\ Summarised =>
         /\ ret.ok
         /\ ret.error = "none"
         /\ DOMAIN ret.summary = SummaryKeys

C12_Witness ==
    /\ Summarised
    /\ pages1 = <<>>
    /\ pages2 = <<<<>>, <<"a">>>>
    /\ ret.ok
    /\ ret.summary.different_pages = 1

\* the summary says what the list of page comparisons says
Agree(summary, pages) ==
    /\ summary.identical_pages
         = Cardinality({k \in 1..Len(pages) : pages[k].identical})
    /\ summary.different_pages
         = Cardinality({k \in 1..Len(pages) : ~pages[k].identical})
    /\ Len(pages) = Max2(summary.total_pages_pdf1, summary.total_pages_pdf2)
    /\ IF Len(pages) = 0 THEN summary.average_similarity = Zero
       ELSE IsMean(summary.average_similarity, pages)

SingleLine(t) ==
    /\ t # <<>>
    /\ \A p \in 1..(Len(t) - 1) :
          t[p] \in {"\n", "\r"} =>
              (p = Len(t) - 1 /\ t[p] = "\r" /\ t[p + 1] = "\n")

StartsWith(line, prefix) ==
    Len(line) >= Len(prefix) /\ SubSeq(line, 1, Len(prefix)) = prefix

\* the positions of the diff lines with the given prefix, the two
\* file-header lines set aside
PrefixedLines(d, prefix) == {k \in 3..Len(d) : d[k][1] = prefix}

\* the lines of a page text, as a set
LinesOf(t) == Elements(splitlines(t))

\* the lines of diff d that are removals (sign "-") or additions (sign "+")
\* together with the unchanged lines, in order and without their prefix
Side(d, sign) ==
    LET Kept(line) == line[1] \in {sign, " "}
        body == SelectSeq(SubSeq(d, 3, Len(d)), Kept)
    IN  [k \in 1..Len(body) |-> Tail(body[k])]

\* the lines x[i..] occur in y[j..], in the same order
RECURSIVE IsSubseqFrom(_, _, _, _)
IsSubseqFrom(x, y, i, j) ==
    IF i > Len(x) THEN TRUE
    ELSE IF j > Len(y) THEN FALSE
    ELSE IF x[i] = y[j] THEN IsSubseqFrom(x, y, i + 1, j + 1)
    ELSE IsSubseqFrom(x, y, i, j + 1)

\* the diff of two different one-line texts: the two file headers, one
\* hunk marker, one '-' line with text A and one '+' line with text B
OneLineDiff(c) ==
    (SingleLine(c.text1) /\ SingleLine(c.text2) /\ c.text1 # c.text2) =>
        /\ ~c.identical
        /\ Len(c.diff) = 5
        /\ StartsWith(c.diff[1], <<"-", "-", "-", " ">>)
        /\ StartsWith(c.diff[2], <<"+", "+", "+", " ">>)
        /\ StartsWith(c.diff[3], <<"@", "@">>)
        /\ PrefixedLines(c.diff, "-") = {4}
        /\ c.diff[4] = <<"-">> \o c.text1
        /\ PrefixedLines(c.diff, "+") = {5}
        /\ c.diff[5] = <<"+">> \o c.text2

\* C17 as stated: the diff of two different one-line texts is as above,
\* and in every diff a '-' line carries a line that text A has and text B
\* has not, a '+' line a line that text B has and text A has not
C17_OnlyInOneText ==
    Compared =>
        \A k \in 1..Len(ret.comparisons) :
            LET c == ret.comparisons[k]
            IN  /\ OneLineDiff(c)
                /\ \A r \in PrefixedLines(c.diff, "-") :
                      /\ Tail(c.diff[r]) \in LinesOf(c.text1)
                      /\ Tail(c.diff[r]) \notin LinesOf(c.text2)
                /\ \A r \in PrefixedLines(c.diff, "+") :
                      /\ Tail(c.diff[r]) \in LinesOf(c.text2)
                      /\ Tail(c.diff[r]) \notin LinesOf(c.text1)

\* C17, amended: the diff of two different one-line texts is as above; in
\* every diff the '-' lines and the unchanged lines are lines of text A in
\* the order of text A, the '+' lines and the unchanged lines are lines of
\* text B in the order of text B, and text A without the '-' lines has as
\* many lines as text B without the '+' lines; the line a '-' or '+' line
\* carries may occur in the other text at another place
C17_DiffLines ==
    Compared =>
        \A k \in 1..Len(ret.comparisons) :
            LET c == ret.comparisons[k]
            IN  /\ OneLineDiff(c)
                /\ \A a \in {splitlines(c.text1)}, b \in {splitlines(c.text2)} :
                      /\ \A side \in {Side(c.diff, "-")} :
                            IsSubseqFrom(side, a, 1, 1)
                      /\ \A side \in {Side(c.diff, "+")} :
                            IsSubseqFrom(side, b, 1, 1)
                      /\ Len(a) - Cardinality(PrefixedLines(c.diff, "-"))
                           = Len(b) - Cardinality(PrefixedLines(c.diff, "+"))

C17_Witness ==
    /\ Compared
    /\ pages1 = <<<<"a", "\n">>>>
    /\ pages2 = <<<<"a", "b">>>>
    /\ ~ret.comparisons[1].identical
    /\ ret.comparisons[1].diff[4] = <<"-", "a", "\n">>
    /\ ret.comparisons[1].diff[5] = <<"+", "a", "b">>

\* the two texts have a character in common
ShareCharacter(x, y) == Elements(x) \cap Elements(y) # {}

\* C18: a page whose two texts differ has a similarity below 100, and
\* above 0 if the two texts have a character in common
C18_SimilarityBounds ==
    Compared =>
        \A k \in 1..Len(ret.comparisons) :
            LET c == ret.comparisons[k]
            IN  ~c.identical =>
                    /\ c.similarity[1] < 100 * c.similarity[2]
                    /\ ShareCharacter(c.text1, c.text2) => c.similarity[1] > 0

\* C13: compare_text and get_summary change no field of the comparer
\* (pdf1_path, pdf2_path, pdf1_reader, pdf2_reader), and a call returns
\* what a call alone on the comparer returns, however the passes of its
\* loop are interleaved with those of the calls of other threads
C13_NoSideEffects ==
    /\ [](\A c \in CallerIds :
             callers[c].pc = "returned" =>
                 callers[c].result
                     = IF callers[c].op = "compare_text"
                       THEN compare_text(pdf1_reader, pdf2_reader)
                       ELSE get_summary(pdf1_reader, pdf2_reader))
    /\ [][callers' # callers =>
              UNCHANGED <<pdf1_path, pdf2_path, pdf1_reader, pdf2_reader>>]_vars

C13_Witness ==
    /\ callers[1].pc = "loop"
    /\ callers[1].op = "compare_text"
    /\ callers[1].i = 1
    /\ callers[2].pc = "returned"
    /\ callers[2].op = "get_summary"
    /\ callers[2].result.different_pages = 2

OneRun(v) ==
    \/ v = NoReport
    \/ \E p1 \in AppPaths, p2 \in AppPaths :
          /\ load_success(p1, p2)
          /\ v = Report(v.kind, p1, p2, ComparerOn[p1, p2].summary,
                        ComparerOn[p1, p2].comparisons)

\* C16: after any sequence of Compare and Export clicks, what is displayed
\* and what is exported is made of one completed run on one pair of files
C16_AllOrNothing ==
    (gui.mode = "gui" /\ ~gui.browsed) =>
        /\ OneRun(gui.summary_text)
        /\ OneRun(gui.report)

\* the compression methods compress_pdf has called so far
Attempted(method) == \E k \in 1..Len(job.attempts) : job.attempts[k] = method

C20_FixedShape ==
    /\ job.pc = "returned" =>
           /\ job.result.raised = "none"
           /\ Len(job.result.values) = 3
    /\ job.pc = "done" => job.fault \notin {"ValueError", "ZeroDivisionError"}

\* C21: the command line never ends in an unhandled exception: when
\* compare_pdfs has failed, main prints the error and exits with status 1
C21_ErrorExit ==
    (gui = NoGui /\ ret.op = "main" /\ called # <<>> /\ ~ret.ok) =>
        ret.error = "exit 1"

\* C28: the diff of a page is empty exactly if the page is identical: no
\* line for equal texts, and at least one '+' or '-' line for texts that
\* differ in any character
C28_DiffIffDifferent ==
    Compared =>
        \A k \in 1..Len(ret.comparisons) :
            \E c \in {ret.comparisons[k]} :
                /\ c.identical <=> c.text1 = c.text2
                /\ c.identical <=> c.diff = <<>>
                /\ ~c.identical =>
                       PrefixedLines(c.diff, "+") \cup PrefixedLines(c.diff, "-") # {}

C28_Witness ==
    /\ Compared
    /\ Len(ret.comparisons) = 1
    /\ ret.comparisons[1].text1 = <<"a">>
    /\ ret.comparisons[1].text2 = <<"a", "\n">>
    /\ ~ret.comparisons[1].identical
    /\ PrefixedLines(ret.comparisons[1].diff, "+") # {}

\* C29: whenever the list of comparisons is not empty the page shown is
\* one of its entries, and Previous on the first page and Next on the last
\* page leave it where it is
C29_PageInRange ==
    /\ []((gui.mode = "gui" /\ gui.comparisons # <<>>) =>
             (0 <= gui.current_page /\ gui.current_page < Len(gui.comparisons)))
    /\ [][/\ (ret'.op = "_prev_page" /\ gui.current_page = 0) =>
                 gui'.current_page = gui.current_page
          /\ (ret'.op = "_next_page"
                 /\ gui.current_page = Len(gui.comparisons) - 1) =>
                 gui'.current_page = gui.current_page]_vars

C29_Witness ==
    /\ gui.mode = "gui"
    /\ ret.op = "_next_page"
    /\ Len(gui.comparisons) = 2
    /\ gui.current_page = 1


\* C25: in replace mode the input file is overwritten only when compress_pdf
\* has returned success for the temporary file, and a file whose compression
\* did not succeed keeps its content
C25_ReplaceAfterSuccess ==
    /\ job.original = "replaced" =>
           /\ job.replace
           /\ job.pc = "done"
           /\ job.result = Tuple(<<TRUE, "output_path", "None">>)
    /\ (job.pc = "done" /\ job.replace /\ outcome(job) # "success") =>
           job.original = "intact"

C25_Witness ==
    /\ job.pc = "done"
    /\ job.caller = "gui"
    /\ job.replace
    /\ job.original = "replaced"
    /\ job.attempts = <<"Ghostscript", "PyPDF">>

\* C26: when a caller in replace mode is done with a file, the temporary
\* output file of that file is not on disk
C26_NoTempLeft ==
    (job.pc = "done" /\ job.replace) => ~job.output

\* how many of the files taken had one of these outcomes
Number(outcomes, kinds) ==
    Cardinality({k \in 1..Len(outcomes) : outcomes[k] \in kinds})

\* the compression CLI has ended, by sys.exit or by a traceback
MainEnded == callers.caller = "main" /\ callers.pc \in {"exited", "traceback"}

\* C27: when the compression CLI ends, --output with several inputs has made
\* it exit with status 1 before any file was taken; otherwise every input
\* was taken, fail_count is the number of inputs that did not exist or whose
\* compression failed, success_count the number of successful compressions,
\* and the exit status is 0 exactly if no input failed
C27_ExitStatus ==
    MainEnded =>
        IF callers.output /\ Len(callers.inputs) > 1
        THEN callers.status = "1" /\ callers.outcomes = <<>>
        ELSE /\ Len(callers.outcomes) = Len(callers.inputs)
             /\ callers.fail_count =
                    Number(callers.outcomes, {"missing", "failed"})
             /\ callers.success_count = Number(callers.outcomes, {"success"})
             /\ callers.status = "0" <=>
                    Number(callers.outcomes, {"missing", "failed"}) = 0

\* C27 apart from the exceptions of C20: the same for a run that no
\* uncaught exception has ended
C27_ExitStatusNoTraceback ==
    callers.pc = "exited" => C27_ExitStatus


\* C22: while a worker thread is before the end of its loop, is_compressing
\* is set and the Compress button is disabled; and a step that starts a
\* worker is taken with is_compressing false, sets it, and finds no worker
\* that has not left its loop
C22_OneWorker ==
    /\ []((callers.caller = "gui" /\ callers.pc \in {"start", "loop"}) =>
             (gui.is_compressing /\ gui.compress_btn = "disabled"))
    /\ [][(callers'.pc = "start" /\ callers.pc # "start") =>
             /\ ~gui.is_compressing
             /\ gui'.is_compressing
             /\ callers.pc \in {"none", "ended"}]_vars

\* the button is enabled again while the worker has not yet reset
\* is_compressing
C22_Witness ==
    /\ callers.pc = "reset"
    /\ gui.is_compressing
    /\ gui.compress_btn = "normal"
    /\ gui.files # <<>>

\* C23: a compression run that has been started comes to its end:
\* is_compressing is false again and the Compress button enabled
C23_RunCompletes ==
    (gui.mode = "compress" /\ gui.is_compressing) ~>
        (~gui.is_compressing /\ gui.compress_btn = "normal")

\* C24: the worker never shows a progress count above its total, and when
\* it has left its loop it has taken the files that were listed when the
\* button was clicked, each once, and counted each as a success or a failure
C24_EachFileOnce ==
    callers.caller = "gui" =>
        /\ callers.pc = "loop" => callers.i <= callers.total
        /\ callers.pc = "reset" =>
               /\ callers.taken = callers.snapshot
               /\ callers.success_count + callers.fail_count
                      = Len(callers.snapshot)

\* the entries of list whose index, from 0, is not selected
Kept(list, selected) ==
    LET keep == {k \in 1..Len(list) :
                    \A j \in 1..Len(selected) : selected[j] # k - 1}
    IN [n \in 1..Cardinality(keep) |->
           list[CHOOSE k \in keep : Cardinality({m \in keep : m <= k}) = n]]

\* C30: the list of files of the compression window has no entry twice and
\* the listbox shows the same entries in the same order; a removal of
\* selected entries leaves exactly the entries that were not selected
C30_ListMirrored ==
    /\ [](gui.mode = "compress" =>
             (Distinct(gui.files) /\ gui.listbox = gui.files))
    /\ [][(gui'.curselection # <<>> /\ gui'.files # gui.files) =>
             gui'.files = Kept(gui.files, gui'.curselection)]_vars

C30_Witness ==
    /\ gui.mode = "compress"
    /\ gui.curselection = <<0, 1>>
    /\ gui.files = <<>>
    /\ gui.is_compressing

====
